---------------------------- MODULE Spec2Model ----------------------------
(***************************************************************************)
(* Face enrollment / recognition and attendance check-in of gjthec/Facial. *)
(*                                                                         *)
(* The repository holds the face service, the faces repository and the     *)
(* presence page in more than one copy.  The model names the copy each     *)
(* definition is translated from:                                          *)
(*   current service    src/unnamed/part_002  (loadingPromise, 3 sources)  *)
(*   current service'   src/src/services/facesRepository.ts:86-196         *)
(*                      (loadingPromise, 1 source)                         *)
(*   legacy service     src/unnamed/part_001  (no loadingPromise)          *)
(*   current repository src/unnamed/part_000  (keyed embeddings)           *)
(*   current page       src/unnamed/part_005  (write-through check-in)     *)
(*   legacy page        src/pages/PresencePage.tsx (recognition gates)     *)
(*   backend            src/backend/server.js                              *)
(*   dashboard          src/unnamed/part_004:22-270, src/services/api.ts   *)
(*                                                                         *)
(* Embeddings are vectors of length 1 over 0..MaxCoord, so that the        *)
(* Euclidean distance is |a - b| and exact.  One unit of distance stands   *)
(* for 0.1: the default threshold 0.6 is DefaultThreshold = 6.  A mean of  *)
(* distances is kept as the fraction num/den and compared exactly.         *)
(*                                                                         *)
(* FaceMatcher, LabeledFaceDescriptors and euclideanDistance are the       *)
(* face-api.js classes the service calls; they are modelled by what        *)
(* face-api.js does (FaceMatcher.ts): the constructor throws on an empty   *)
(* input array, matchDescriptor takes per label the MEAN of the distances  *)
(* to that label's descriptors, and findBestMatch returns the label        *)
(* 'unknown' unless the best distance is strictly below the threshold.     *)
(***************************************************************************)
EXTENDS Integers, Sequences, FiniteSets, TLC

(***************************************************************************)
(* Bounds of the model.                                                    *)
(***************************************************************************)
MaxCoord == 7
MaxCaptures == 2
MaxLoads == 2
MaxClock == 1
MaxThreshold == 2

(***************************************************************************)
(* Program constants.                                                      *)
(***************************************************************************)
DefaultThreshold == 6
MAX_DISTANCE == 30
GraceMinutes == 15

VARIABLES
  faces,          \* collection 'faces': userId -> document
  presences,      \* collection 'presences': appended documents, in order
  now,            \* Date.now()
  variant,        \* which copy of the face service the page imports
  loaded,         \* faceRecognitionService: let loaded
  loadingPromise, \* faceRecognitionService: let loadingPromise (0 = null)
  promiseState,   \* settlement of every promise loadModels has created
  loadTasks,      \* model loads in progress: [owner, src, tried]
  loadsStarted,   \* number of model loads started so far
  envUrl,         \* whether VITE_FACEAPI_MODEL_URL is set
  matcher,        \* faceRecognitionService: let matcher
  pc,             \* position of the mount effect and of handleCapture
  retLoad,        \* where loadModels returns to, per process
  retLfm,         \* where loadFaceMatcher returns to, per process
  awaiting,       \* the promise a process awaits in loadModels (0 = none)
  snap,           \* the listActiveFaces snapshot a process holds
  cap,            \* locals of the running handleCapture
  ui,             \* PresencePage state: loading, error, success, status
  captures,       \* number of captures made in this page session
  backend,        \* POST /api/attendance/check-in: database, request, response
  dash,           \* Dashboard state and the position of its handlers
  enroll,         \* FaceEnrollmentPage state: samples and their average
  loadError,      \* the sources named by the error of each rejected load
  profile,        \* FaceProfilePage state: form, embeddings, pending sample
  stamps          \* createdAt / updatedAt of each profile (SpecProfile)

storeVars == <<faces, presences, now>>
svcVars == <<variant, loaded, loadingPromise, promiseState, loadTasks,
             loadsStarted, envUrl, matcher>>
pageVars == <<pc, retLoad, retLfm, awaiting, snap, cap, ui, captures>>
vars == <<faces, presences, now, variant, loaded, loadingPromise,
          promiseState, loadTasks, loadsStarted, envUrl, matcher, pc,
          retLoad, retLfm, awaiting, snap, cap, ui, captures, backend, dash,
          enroll, loadError, profile, stamps>>
restVars == <<enroll, loadError, profile, stamps>>

(***************************************************************************)
(* Values.                                                                 *)
(***************************************************************************)
UserSeq == <<"u1", "u2">>
Users == {UserSeq[i] : i \in 1..Len(UserSeq)}
Coord == 0..MaxCoord
Vec == {<<x>> : x \in Coord}
NoFace == <<>>
Procs == {"mount", "capture"}

Abs(x) == IF x < 0 THEN -x ELSE x

EmptyMap == [k \in {} |-> <<>>]

IdxKey(i) == <<"idx", i>>
TsKey(t) == <<"ts", t>>

NoDoc == [exists |-> FALSE, active |-> FALSE, kind |-> "map",
          list |-> <<>>, map |-> EmptyMap]

ListDoc(a, l) == [exists |-> TRUE, active |-> a, kind |-> "list",
                  list |-> l, map |-> EmptyMap]

MapDoc(a, m) == [exists |-> TRUE, active |-> a, kind |-> "map",
                 list |-> <<>>, map |-> m]

(***************************************************************************)
(* Fractions num/den with den > 0: the distances face-api.js reports.      *)
(***************************************************************************)
Frac(n, d) == [num |-> n, den |-> d]
FracLess(a, b) == a.num * b.den < b.num * a.den
FracEq(a, b) == a.num * b.den = b.num * a.den
NoDistance == Frac(-1, 1)

\* A normalization that numbers a list's vectors from 1.
normalizeEmbeddingsFromOne(doc) ==
  IF ~doc.exists THEN EmptyMap
  ELSE IF doc.kind = "list"
       THEN [k \in {IdxKey(i) : i \in 1..Len(doc.list)} |-> doc.list[k[2]]]
       ELSE doc.map

(***************************************************************************)
(* facesRepository.                                                        *)
(***************************************************************************)
\* normalizeEmbeddings: a list becomes the mapping index -> vector, a
\* mapping keeps its keys, an absent value becomes the empty mapping.
normalizeEmbeddings(doc) ==
  IF ~doc.exists THEN EmptyMap
  ELSE IF doc.kind = "list"
       THEN [k \in {IdxKey(i - 1) : i \in 1..Len(doc.list)} |-> doc.list[k[2] + 1]]
       ELSE doc.map

\* Firestore setDoc(..., {merge: true}) of a map field: keys are merged into
\* a stored map; a stored list is replaced by the map.
MergeMaps(old, new) ==
  [k \in (DOMAIN old) \cup (DOMAIN new) |->
     IF k \in DOMAIN new THEN new[k] ELSE old[k]]

MergedEmbeddings(doc, m) ==
  IF doc.exists /\ doc.kind = "map" THEN MergeMaps(doc.map, m) ELSE m

\* upsertFace: setDoc({...face, embeddings: normalized, ...}, {merge: true}).
upsertFace(doc, active, m) == MapDoc(active, MergedEmbeddings(doc, m))

\* upsertFace: updatedAt: serverTimestamp(), createdAt: face.createdAt ||
\* serverTimestamp(); created is the payload's createdAt, -1 when it has none.
upsertFaceStamps(st, created, t) ==
  [createdAt |-> IF created >= 0 THEN created ELSE t, updatedAt |-> t]

\* An addEmbedding that also writes active: true.
addEmbeddingWriteActivating(doc, normalized, key, emb) ==
  MapDoc(TRUE,
         MergedEmbeddings(doc, MergeMaps(normalized, [k \in {key} |-> emb])))

\* addEmbedding, its setDoc: only embeddings and updatedAt are written.
addEmbeddingWrite(doc, normalized, key, emb) ==
  MapDoc(doc.exists /\ doc.active,
         MergedEmbeddings(doc, MergeMaps(normalized, [k \in {key} |-> emb])))

RECURSIVE ActiveFrom(_, _)
ActiveFrom(store, i) ==
  IF i > Len(UserSeq) THEN <<>>
  ELSE LET u == UserSeq[i]
           rest == ActiveFrom(store, i + 1)
       IN IF store[u].exists /\ store[u].active
          THEN <<[userId |-> u, kind |-> store[u].kind,
                  list |-> store[u].list, map |-> store[u].map]>> \o rest
          ELSE rest

\* listActiveFaces: query where('active', '==', true), in document-id order.
listActiveFaces(store) == ActiveFrom(store, 1)

(***************************************************************************)
(* faceRecognitionService and the face-api.js classes it calls.            *)
(***************************************************************************)
euclideanDistance(a, b) == Abs(a[1] - b[1])

\* face.embeddings.map(...): a TypeError unless embeddings is an array.
toLabeledDescriptorThrows(face) == face.kind # "list"

toLabeledDescriptor(face) == [label |-> face.userId, descriptors |-> face.list]

NoMatcher == [built |-> FALSE, labeled |-> <<>>, threshold |-> 0]

\* faces.map(toLabeledDescriptor); new FaceMatcher(labeled, threshold).
BuildThrows(faceList) ==
  \/ \E i \in 1..Len(faceList) : toLabeledDescriptorThrows(faceList[i])
  \/ Len(faceList) = 0

BuildMatcher(faceList, threshold) ==
  [built |-> TRUE,
   labeled |-> [i \in 1..Len(faceList) |-> toLabeledDescriptor(faceList[i])],
   threshold |-> threshold]

RECURSIVE SumDistances(_, _, _)
SumDistances(q, descriptors, i) ==
  IF i > Len(descriptors) THEN 0
  ELSE euclideanDistance(descriptors[i], q) + SumDistances(q, descriptors, i + 1)

\* FaceMatcher.computeMeanDistance: sum / (descriptors.length || 1).
computeMeanDistance(q, descriptors) ==
  Frac(SumDistances(q, descriptors, 1),
       IF Len(descriptors) = 0 THEN 1 ELSE Len(descriptors))

FaceMatch(label, distance) == [label |-> label, distance |-> distance]

\* FaceMatcher.matchDescriptor: reduce((best, curr) =>
\*   best.distance < curr.distance ? best : curr).
RECURSIVE ReduceBest(_, _, _, _)
ReduceBest(q, labeled, i, best) ==
  IF i > Len(labeled) THEN best
  ELSE LET curr == FaceMatch(labeled[i].label,
                             computeMeanDistance(q, labeled[i].descriptors))
       IN ReduceBest(q, labeled, i + 1,
                     IF FracLess(best.distance, curr.distance) THEN best ELSE curr)

matchDescriptor(m, q) ==
  ReduceBest(q, m.labeled, 2,
             FaceMatch(m.labeled[1].label,
                       computeMeanDistance(q, m.labeled[1].descriptors)))

\* FaceMatcher.findBestMatch: bestMatch.distance < distanceThreshold ?
\*   bestMatch : new FaceMatch('unknown', bestMatch.distance).
findBestMatch(m, q) ==
  LET bestMatch == matchDescriptor(m, q)
  IN IF FracLess(bestMatch.distance, Frac(m.threshold, 1))
     THEN bestMatch
     ELSE FaceMatch("unknown", bestMatch.distance)

NoResult == [recognized |-> FALSE, userId |-> "none", distance |-> NoDistance]

\* recognizeUserByFace after the matcher exists: detection, findBestMatch and
\* the test  label === 'unknown' || distance > threshold.
recognizeResult(m, probe, threshold) ==
  IF probe = NoFace THEN NoResult
  ELSE LET bestMatch == findBestMatch(m, probe)
       IN IF bestMatch.label = "unknown"
             \/ FracLess(Frac(threshold, 1), bestMatch.distance)
          THEN NoResult
          ELSE [recognized |-> TRUE, userId |-> bestMatch.label,
                distance |-> bestMatch.distance]

(***************************************************************************)
(* Initial values shared by the specifications.                            *)
(***************************************************************************)
CapIdle == [face |-> NoFace, embedding |-> NoFace, existed |-> FALSE,
            key |-> 0, normalized |-> EmptyMap, result |-> NoResult,
            log |-> <<>>, threshold |-> DefaultThreshold, called |-> FALSE,
            attempt |-> 0, threw |-> FALSE, storeFailed |-> FALSE,
            persistFailed |-> FALSE, writes |-> 0,
            before |-> NoDoc]

UiIdle == [loading |-> FALSE, error |-> FALSE, success |-> 0, status |-> "ready"]

NoResponse == [sent |-> FALSE, status |-> 0, hasSuccess |-> FALSE,
               success |-> FALSE, error |-> "", distance |-> -1]

NoRequest == [token |-> FALSE, file |-> FALSE, gps |-> FALSE, t |-> 0,
              distance |-> 0, azure |-> "ok"]

NoClass == [exists |-> FALSE, startTime |-> 0, endTime |-> 0, radius |-> 0]

BackendIdle == [phase |-> "none", req |-> NoRequest, cls |-> NoClass,
                tx |-> 0, audit |-> 0, rolledBack |-> FALSE,
                infraFailed |-> FALSE, res |-> NoResponse]

NoRecord == [id |-> 0, classId |-> "none", studentId |-> "none",
             checkInTime |-> -1, checkInLocation |-> "none",
             checkOutTime |-> -1, checkOutLocation |-> "none",
             status |-> "none"]

DashIdle == [phase |-> "idle", user |-> "u1", isActive |-> <<>>,
             showCamera |-> FALSE, cameraError |-> "",
             selectedClassId |-> "none", activeRecord |-> NoRecord,
             loading |-> FALSE, statusMessage |-> "", position |-> "none",
             outcome |-> "none", attempts |-> 0,
             checkInResult |-> NoRecord, checkOutResult |-> NoRecord,
             capturedClassId |-> "none", openRecords |-> 0]

\* FaceEnrollmentPage: samples = [], and no average while there is none.
NoAverage == [defined |-> FALSE, value |-> <<>>]

EnrollIdle == [samples |-> <<>>, average |-> NoAverage, rendered |-> FALSE,
               saved |-> FALSE]

\* FaceProfilePage: defaultForm, currentEmbeddings = {}, pendingEmbedding =
\* null, selectedId = ''.  currentEmbeddings holds the embeddings field as
\* it was read, a list or a map, in the shape of a document; `session` holds
\* the samples captured since the form was last reset.
ProfileIdle == [form |-> [userId |-> "", active |-> TRUE],
                currentEmbeddings |-> NoDoc, pendingEmbedding |-> NoFace,
                selectedId |-> "", error |-> FALSE, session |-> {}]

\* A profile document's createdAt and updatedAt; -1 when the field is absent.
NoStamps == [createdAt |-> -1, updatedAt |-> -1]

ServiceInit ==
  /\ loaded = FALSE
  /\ loadingPromise = 0
  /\ promiseState = [i \in 1..MaxLoads |-> "unused"]
  /\ loadTasks = {}
  /\ loadsStarted = 0
  /\ matcher = NoMatcher
  /\ loadError = [i \in 1..MaxLoads |-> <<>>]

PageIdle ==
  /\ pc = [p \in Procs |-> "idle"]
  /\ retLoad = [p \in Procs |-> "idle"]
  /\ retLfm = [p \in Procs |-> "idle"]
  /\ awaiting = [p \in Procs |-> 0]
  /\ snap = [p \in Procs |-> <<>>]
  /\ cap = CapIdle
  /\ ui = UiIdle
  /\ captures = 0

(***************************************************************************)
(* loadModels, as the mount effect and handleCapture call it.              *)
(***************************************************************************)
LoggedUser == "u1"

\* Where a process continues when an awaited call rejects.
Handler(p) ==
  IF p = "mount" THEN "m_catch"
  ELSE IF variant = "part_001" THEN "l_catch" ELSE "c_catch"

\* getModelBaseUrls (part_002:10-18): [envUrl, base + 'models', cdn] without
\* the unset entries; getModelBaseUrl (facesRepository.ts:95-100) and the
\* legacy '/models' name one source.
NumSources ==
  IF variant = "part_002" THEN (IF envUrl THEN 3 ELSE 2) ELSE 1

\* The sources the rejection of loadModels names: `Tentado: ${tried.join(', ')}`
\* (part_002:44-46), MODEL_URL (facesRepository.ts:117-119); the legacy
\* loadModels lets the error of loadFromUri through and names none itself.
ErrorNamesLast(task) == <<task.src>>

ErrorNames(task) == IF variant = "part_001" THEN <<>> ELSE task.tried

\* if (loaded) return;
LoadModelsLoaded(p) ==
  /\ pc[p] = "loadModels"
  /\ loaded
  /\ pc' = [pc EXCEPT ![p] = retLoad[p]]
  /\ UNCHANGED <<storeVars, svcVars, restVars, retLoad, retLfm, awaiting, snap, cap, ui,
                 captures, backend, dash>>

\* if (loadingPromise) return loadingPromise;  (part_002:22,
\* facesRepository.ts:104,122): the caller awaits the load in flight.
LoadModelsJoin(p) ==
  /\ pc[p] = "loadModels"
  /\ ~loaded
  /\ variant # "part_001"
  /\ loadingPromise # 0
  /\ awaiting' = [awaiting EXCEPT ![p] = loadingPromise]
  /\ pc' = [pc EXCEPT ![p] = "awaitLoad"]
  /\ UNCHANGED <<storeVars, svcVars, restVars, retLoad, retLfm, snap, cap, ui, captures,
                 backend, dash>>

\* loadingPromise = (async () => {...})(); await loadingPromise;  the first
\* source's loadFromUri calls are started before the first await.
LoadModelsStart(p) ==
  /\ pc[p] = "loadModels"
  /\ ~loaded
  /\ variant # "part_001"
  /\ loadingPromise = 0
  /\ loadsStarted < MaxLoads
  /\ loadsStarted' = loadsStarted + 1
  /\ loadingPromise' = loadsStarted + 1
  /\ promiseState' = [promiseState EXCEPT ![loadsStarted + 1] = "pending"]
  /\ loadTasks' = loadTasks \cup {[owner |-> loadsStarted + 1, src |-> 1,
                                  tried |-> <<1>>]}
  /\ awaiting' = [awaiting EXCEPT ![p] = loadsStarted + 1]
  /\ pc' = [pc EXCEPT ![p] = "awaitLoad"]
  /\ UNCHANGED <<storeVars, variant, loaded, envUrl, restVars, matcher, retLoad, retLfm,
                 snap, cap, ui, captures, backend, dash>>

\* The legacy loadModels (part_001:9-19): if (loaded) return; and then the
\* caller's own Promise.all of the three loadFromUri calls.
LoadModelsLegacy(p) ==
  /\ pc[p] = "loadModels"
  /\ ~loaded
  /\ variant = "part_001"
  /\ loadsStarted < MaxLoads
  /\ loadsStarted' = loadsStarted + 1
  /\ promiseState' = [promiseState EXCEPT ![loadsStarted + 1] = "pending"]
  /\ loadTasks' = loadTasks \cup {[owner |-> loadsStarted + 1, src |-> 1,
                                  tried |-> <<1>>]}
  /\ awaiting' = [awaiting EXCEPT ![p] = loadsStarted + 1]
  /\ pc' = [pc EXCEPT ![p] = "awaitLoad"]
  /\ UNCHANGED <<storeVars, variant, loaded, loadingPromise, envUrl, restVars, matcher,
                 retLoad, retLfm, snap, cap, ui, captures, backend, dash>>

\* The three nets loaded from the task's source: loaded = true.
LoadSourceOk(task) ==
  /\ task \in loadTasks
  /\ loadTasks' = loadTasks \ {task}
  /\ loaded' = TRUE
  /\ promiseState' = [promiseState EXCEPT ![task.owner] = "resolved"]
  /\ UNCHANGED <<storeVars, variant, loadingPromise, loadsStarted, envUrl, restVars,
                 matcher, pageVars, backend, dash>>

\* A source failed and another is left: the loop tries the next one.
LoadSourceNext(task) ==
  /\ task \in loadTasks
  /\ task.src < NumSources
  /\ loadTasks' = (loadTasks \ {task}) \cup
                  {[task EXCEPT !.src = task.src + 1,
                                !.tried = Append(task.tried, task.src + 1)]}
  /\ UNCHANGED <<storeVars, variant, loaded, loadingPromise, promiseState,
                 loadsStarted, envUrl, restVars, matcher, pageVars, backend, dash>>

\* The last source failed: loadingPromise = null; throw new Error(...).
LoadSourceFail(task) ==
  /\ task \in loadTasks
  /\ task.src = NumSources
  /\ loadTasks' = loadTasks \ {task}
  /\ loadingPromise' = 0
  /\ promiseState' = [promiseState EXCEPT ![task.owner] = "rejected"]
  /\ loadError' = [loadError EXCEPT ![task.owner] = ErrorNames(task)]
  /\ UNCHANGED <<storeVars, variant, loaded, loadsStarted, envUrl, enroll, matcher,
                 pageVars, backend, dash, profile, stamps>>

\* await loadingPromise, once it has settled.
AwaitLoad(p) ==
  /\ pc[p] = "awaitLoad"
  /\ promiseState[awaiting[p]] # "pending"
  /\ pc' = [pc EXCEPT ![p] = IF promiseState[awaiting[p]] = "resolved"
                              THEN retLoad[p] ELSE Handler(p)]
  /\ awaiting' = [awaiting EXCEPT ![p] = 0]
  /\ UNCHANGED <<storeVars, svcVars, restVars, retLoad, retLfm, snap, cap, ui, captures,
                 backend, dash>>

(***************************************************************************)
(* loadFaceMatcher after its loadModels: listActiveFaces, then the build.  *)
(***************************************************************************)
LfmList(p) ==
  /\ pc[p] = "lfm_list"
  /\ snap' = [snap EXCEPT ![p] = listActiveFaces(faces)]
  /\ pc' = [pc EXCEPT ![p] = "lfm_build"]
  /\ UNCHANGED <<storeVars, svcVars, restVars, retLoad, retLfm, awaiting, cap, ui,
                 captures, backend, dash>>

LfmListFails(p) ==
  /\ pc[p] = "lfm_list"
  /\ pc' = [pc EXCEPT ![p] = Handler(p)]
  /\ cap' = IF p = "capture" THEN [cap EXCEPT !.storeFailed = TRUE] ELSE cap
  /\ UNCHANGED <<storeVars, svcVars, restVars, retLoad, retLfm, awaiting, snap, ui,
                 captures, backend, dash>>

\* matcher = new FaceMatcher(faces.map(toLabeledDescriptor), threshold).
LfmBuild(p) ==
  /\ pc[p] = "lfm_build"
  /\ ~BuildThrows(snap[p])
  /\ matcher' = BuildMatcher(snap[p], DefaultThreshold)
  /\ pc' = [pc EXCEPT ![p] = retLfm[p]]
  /\ snap' = [snap EXCEPT ![p] = <<>>]
  /\ cap' = IF p = "capture" /\ variant # "part_001"
            THEN [cap EXCEPT !.log = Append(cap.log, "rebuild")] ELSE cap
  /\ UNCHANGED <<storeVars, variant, loaded, loadingPromise, promiseState,
                 loadTasks, loadsStarted, envUrl, restVars, retLoad, retLfm, awaiting, ui,
                 captures, backend, dash>>

LfmBuildThrows(p) ==
  /\ pc[p] = "lfm_build"
  /\ BuildThrows(snap[p])
  /\ pc' = [pc EXCEPT ![p] = Handler(p)]
  /\ snap' = [snap EXCEPT ![p] = <<>>]
  /\ UNCHANGED <<storeVars, svcVars, restVars, retLoad, retLfm, awaiting, cap, ui,
                 captures, backend, dash>>

(***************************************************************************)
(* PresencePage: the mount effect and the capture surface.                 *)
(***************************************************************************)
\* useEffect(() => { loadFaceMatcher().catch(() => setError(...)) }, []).
MountEffect ==
  /\ pc["mount"] = "m_start"
  /\ pc' = [pc EXCEPT !["mount"] = "loadModels"]
  /\ retLoad' = [retLoad EXCEPT !["mount"] = "lfm_list"]
  /\ retLfm' = [retLfm EXCEPT !["mount"] = "m_done"]
  /\ UNCHANGED <<storeVars, svcVars, restVars, awaiting, snap, cap, ui, captures,
                 backend, dash>>

MountCatch ==
  /\ pc["mount"] = "m_catch"
  /\ pc' = [pc EXCEPT !["mount"] = "m_done"]
  /\ ui' = [ui EXCEPT !.error = TRUE]
  /\ UNCHANGED <<storeVars, svcVars, restVars, retLoad, retLfm, awaiting, snap, cap,
                 captures, backend, dash>>

\* CameraCapture's 'Tentar Novamente': onClearError = () => setError(null).
ClearError ==
  /\ ui.error
  /\ ui' = [ui EXCEPT !.error = FALSE]
  /\ UNCHANGED <<storeVars, svcVars, restVars, pc, retLoad, retLfm, awaiting, snap, cap,
                 captures, backend, dash>>

\* The shutter button is rendered only without an error and is disabled
\* while isLoading (CameraCapture.tsx:201-213).
CanCapture ==
  /\ pc["capture"] = "idle"
  /\ ~ui.loading
  /\ ~ui.error
  /\ captures < MaxCaptures

\* Date.now(): the clock read, which may have advanced since the last read.
ClockReads == {t \in {now, now + 1} : t <= MaxClock}

\* A presence document whose recognized flag ignores the claimant: the
\* matcher's verdict alone.
PresenceFromVerdict(user, result, attempt) ==
  [userId |-> user,
   status |-> "present",
   hasRecognized |-> TRUE,
   recognized |-> result.recognized,
   recognizedUserId |-> IF result.recognized THEN result.userId ELSE "none",
   matcherDistance |-> IF result.recognized THEN result.distance ELSE NoDistance,
   note |-> IF result.recognized THEN "recognized" ELSE "not-recognized",
   afterMatch |-> TRUE,
   matched |-> result,
   attempt |-> attempt]

\* The presence document handleCapture builds (part_005:98-115).  attempt and
\* matched are history: the capture that wrote the record and the value
\* recognizeUserByFace returned to it.
PresenceFromMatch(user, result, attempt) ==
  [userId |-> user,
   status |-> "present",
   hasRecognized |-> TRUE,
   recognized |-> (result.recognized /\ result.userId = user),
   recognizedUserId |-> IF result.recognized THEN result.userId ELSE "none",
   matcherDistance |-> IF result.recognized THEN result.distance ELSE NoDistance,
   note |-> IF result.recognized /\ result.userId = user THEN "recognized"
            ELSE IF result.recognized THEN "other-user" ELSE "not-recognized",
   afterMatch |-> TRUE,
   matched |-> result,
   attempt |-> attempt]

\* The record of the catch block (part_005:127-134).
PresenceFallback(user, attempt) ==
  [userId |-> user, status |-> "present", hasRecognized |-> FALSE,
   recognized |-> FALSE, recognizedUserId |-> "none",
   matcherDistance |-> NoDistance, note |-> "fallback",
   afterMatch |-> FALSE, matched |-> NoResult, attempt |-> attempt]

\* The legacy page's records (pages/PresencePage.tsx:66-70, 83-88).
PresenceLegacy(user, status, result, attempt) ==
  [userId |-> user, status |-> status, hasRecognized |-> FALSE,
   recognized |-> FALSE, recognizedUserId |-> "none",
   matcherDistance |-> IF status = "present" THEN result.distance ELSE NoDistance,
   note |-> "legacy", afterMatch |-> TRUE, matched |-> result,
   attempt |-> attempt]

\* A caller that goes on to ret without reloading the matcher.
SkipLoadFaceMatcher(p, ret) ==
  /\ pc' = [pc EXCEPT ![p] = ret]
  /\ UNCHANGED <<retLoad, retLfm>>

\* loadFaceMatcher() called by process p, continuing at ret.
CallLoadFaceMatcher(p, ret) ==
  /\ pc' = [pc EXCEPT ![p] = "loadModels"]
  /\ retLoad' = [retLoad EXCEPT ![p] = "lfm_list"]
  /\ retLfm' = [retLfm EXCEPT ![p] = ret]

\* The attempt is over: finally { setLoading(false) }.
Finish(u) ==
  /\ pc' = [pc EXCEPT !["capture"] = "idle"]
  /\ ui' = [u EXCEPT !.loading = FALSE]

\* handleCapture up to createEmbeddingFromBlob's loadModels (part_005:60-71).
HC_Start(face) ==
  /\ CanCapture
  /\ variant # "part_001"
  /\ captures' = captures + 1
  /\ cap' = [CapIdle EXCEPT !.face = face, !.attempt = captures + 1,
                            !.before = faces[LoggedUser]]
  /\ ui' = [ui EXCEPT !.loading = TRUE, !.error = FALSE, !.success = 0,
                      !.status = "processing"]
  /\ pc' = [pc EXCEPT !["capture"] = "loadModels"]
  /\ retLoad' = [retLoad EXCEPT !["capture"] = "c_detect"]
  /\ UNCHANGED <<storeVars, svcVars, restVars, retLfm, awaiting, snap, backend, dash>>

\* detectSingleFace(...).withFaceDescriptor(); no face: the early return of
\* part_005:72-76.
HC_Detect ==
  /\ pc["capture"] = "c_detect"
  /\ IF cap.face = NoFace
     THEN /\ Finish([ui EXCEPT !.status = "no-face"])
          /\ cap' = cap
     ELSE /\ cap' = [cap EXCEPT !.embedding = cap.face]
          /\ pc' = [pc EXCEPT !["capture"] = "c_getFace"]
          /\ ui' = ui
  /\ UNCHANGED <<storeVars, svcVars, restVars, retLoad, retLfm, awaiting, snap, captures,
                 backend, dash>>

\* const existing = await getFace(user.sub); const embeddingKey = Date.now().
HC_GetFace ==
  /\ pc["capture"] = "c_getFace"
  /\ \E ok \in BOOLEAN, t \in ClockReads :
       IF ok
       THEN /\ now' = t
            /\ cap' = [cap EXCEPT !.existed = faces[LoggedUser].exists,
                                  !.key = t]
            /\ pc' = [pc EXCEPT !["capture"] =
                        IF faces[LoggedUser].exists THEN "c_addGet" ELSE "c_upsert"]
       ELSE /\ now' = now
            /\ cap' = [cap EXCEPT !.storeFailed = TRUE]
            /\ pc' = [pc EXCEPT !["capture"] = "c_catch"]
  /\ UNCHANGED <<faces, presences, svcVars, restVars, retLoad, retLfm, awaiting, snap, ui,
                 captures, backend, dash>>

\* await upsertFace({userId, active: true, embeddings: {[key]: embedding}}),
\* then loadFaceMatcher() is called.
HC_Upsert ==
  /\ pc["capture"] = "c_upsert"
  /\ \E ok \in BOOLEAN :
       IF ok
       THEN /\ faces' = [faces EXCEPT ![LoggedUser] =
                           upsertFace(faces[LoggedUser], TRUE,
                                      (TsKey(cap.key) :> cap.embedding))]
            /\ cap' = [cap EXCEPT !.log = Append(cap.log, "persist")]
            /\ CallLoadFaceMatcher("capture", "c_recognize")
       ELSE /\ faces' = faces
            /\ cap' = [cap EXCEPT !.storeFailed = TRUE, !.persistFailed = TRUE]
            /\ pc' = [pc EXCEPT !["capture"] = "c_catch"]
            /\ UNCHANGED <<retLoad, retLfm>>
  /\ UNCHANGED <<presences, now, svcVars, restVars, awaiting, snap, ui, captures, backend,
                 dash>>

\* addEmbedding: const snapshot = await getDoc(ref); normalizeEmbeddings(...).
HC_AddGet ==
  /\ pc["capture"] = "c_addGet"
  /\ \E ok \in BOOLEAN :
       IF ok
       THEN /\ cap' = [cap EXCEPT !.normalized = normalizeEmbeddings(faces[LoggedUser])]
            /\ pc' = [pc EXCEPT !["capture"] = "c_addSet"]
       ELSE /\ cap' = [cap EXCEPT !.storeFailed = TRUE, !.persistFailed = TRUE]
            /\ pc' = [pc EXCEPT !["capture"] = "c_catch"]
  /\ UNCHANGED <<storeVars, svcVars, restVars, retLoad, retLfm, awaiting, snap, ui,
                 captures, backend, dash>>

\* addEmbedding: key = Date.now().toString(); await setDoc(..., {merge: true});
\* then loadFaceMatcher() is called.
HC_AddSet ==
  /\ pc["capture"] = "c_addSet"
  /\ \E ok \in BOOLEAN, t \in ClockReads :
       IF ok
       THEN /\ now' = t
            /\ faces' = [faces EXCEPT ![LoggedUser] =
                           addEmbeddingWrite(faces[LoggedUser], cap.normalized,
                                             TsKey(t), cap.embedding)]
            /\ cap' = [cap EXCEPT !.log = Append(cap.log, "persist")]
            /\ CallLoadFaceMatcher("capture", "c_recognize")
       ELSE /\ now' = now
            /\ faces' = faces
            /\ cap' = [cap EXCEPT !.storeFailed = TRUE, !.persistFailed = TRUE]
            /\ pc' = [pc EXCEPT !["capture"] = "c_catch"]
            /\ UNCHANGED <<retLoad, retLfm>>
  /\ UNCHANGED <<presences, svcVars, restVars, awaiting, snap, ui, captures, backend, dash>>

\* const result = await recognizeUserByFace(image): the matcher is built on
\* demand, then detection and findBestMatch; an accepted match goes on to
\* read the active profiles for the display fields.
HC_Recognize ==
  /\ pc["capture"] = "c_recognize"
  /\ IF ~matcher.built
     THEN /\ CallLoadFaceMatcher("capture", "c_recognize")
          /\ cap' = cap
     ELSE LET r == recognizeResult(matcher, cap.face, DefaultThreshold)
          IN /\ cap' = [cap EXCEPT !.result = r, !.called = TRUE,
                                   !.log = Append(cap.log, "match")]
             /\ pc' = [pc EXCEPT !["capture"] =
                         IF r.recognized THEN "c_lookup" ELSE "c_register"]
             /\ UNCHANGED <<retLoad, retLfm>>
  /\ UNCHANGED <<storeVars, svcVars, restVars, awaiting, snap, ui, captures, backend, dash>>

\* const faces = await listActiveFaces() inside recognizeUserByFace.
HC_Lookup ==
  /\ pc["capture"] = "c_lookup"
  /\ \E ok \in BOOLEAN :
       IF ok
       THEN /\ pc' = [pc EXCEPT !["capture"] = "c_register"]
            /\ cap' = cap
       ELSE /\ pc' = [pc EXCEPT !["capture"] = "c_catch"]
            /\ cap' = [cap EXCEPT !.storeFailed = TRUE]
  /\ UNCHANGED <<storeVars, svcVars, restVars, retLoad, retLfm, awaiting, snap, ui,
                 captures, backend, dash>>

\* An addDoc that rejects after the document was stored.
addDocStoredThenRejected(collection, record) == Append(collection, record)

\* registerPresence whose addDoc rejects: the write failed as a whole and the
\* collection is as it was.
addDocRejected(collection, record) == collection

\* await registerPresence(record); setSuccess(record); setError(null).
HC_Register ==
  /\ pc["capture"] = "c_register"
  /\ \E ok \in BOOLEAN :
       IF ok
       THEN /\ presences' = Append(presences,
                               PresenceFromMatch(LoggedUser, cap.result, cap.attempt))
            /\ Finish([ui EXCEPT !.success = Len(presences) + 1,
                                  !.error = FALSE, !.status = "registered"])
            /\ cap' = [cap EXCEPT !.writes = @ + 1]
       ELSE /\ presences' = addDocRejected(presences,
                               PresenceFromMatch(LoggedUser, cap.result, cap.attempt))
            /\ pc' = [pc EXCEPT !["capture"] = "c_catch"]
            /\ cap' = [cap EXCEPT !.storeFailed = TRUE, !.writes = @ + 1]
            /\ ui' = ui
  /\ UNCHANGED <<faces, now, svcVars, restVars, retLoad, retLfm, awaiting, snap, captures,
                 backend, dash>>

\* catch: setError(...); await registerPresence(fallbackRecord);
\* setSuccess(fallbackRecord); a failing fallback write leaves the handler
\* through finally.
HC_Catch ==
  /\ pc["capture"] = "c_catch"
  /\ \E ok \in BOOLEAN :
       IF ok
       THEN /\ presences' = Append(presences,
                               PresenceFallback(LoggedUser, cap.attempt))
            /\ Finish([ui EXCEPT !.error = TRUE, !.success = Len(presences) + 1,
                                  !.status = "registered-fallback"])
            /\ cap' = [cap EXCEPT !.threw = TRUE, !.writes = @ + 1]
       ELSE /\ presences' = addDocRejected(presences,
                               PresenceFallback(LoggedUser, cap.attempt))
            /\ Finish([ui EXCEPT !.error = TRUE])
            /\ cap' = [cap EXCEPT !.threw = TRUE, !.storeFailed = TRUE,
                                  !.writes = @ + 1]
  /\ UNCHANGED <<faces, now, svcVars, restVars, retLoad, retLfm, awaiting, snap, captures,
                 backend, dash>>

(***************************************************************************)
(* Spec: the presence page over the current service and repository.        *)
(***************************************************************************)
\* What the camera may deliver: no face, or a face at either end of the
\* descriptor range.
CapturedFaces == {NoFace, <<0>>, <<MaxCoord>>}

\* Stored profiles at page load: legacy list-shaped documents and documents
\* written by the current repository, active or not.
ClaimantDocs ==
  {NoDoc, ListDoc(TRUE, <<<<MaxCoord>>>>),
   MapDoc(FALSE, (TsKey(0) :> <<MaxCoord>>)),
   MapDoc(TRUE, (TsKey(0) :> <<MaxCoord>>))}

OtherDocs ==
  {NoDoc, ListDoc(TRUE, <<<<0>>>>)}

CurrentDocs ==
  {f \in [Users -> ClaimantDocs \cup OtherDocs] :
     f["u1"] \in ClaimantDocs /\ f["u2"] \in OtherDocs}

\* The page has rendered and its mount effect is about to run.
Mounting == pc = [p \in Procs |-> IF p = "mount" THEN "m_start" ELSE "idle"]

PageInit ==
  /\ presences = <<>>
  /\ now = 0
  /\ ServiceInit
  /\ retLoad = [p \in Procs |-> "idle"]
  /\ retLfm = [p \in Procs |-> "idle"]
  /\ awaiting = [p \in Procs |-> 0]
  /\ snap = [p \in Procs |-> <<>>]
  /\ cap = CapIdle
  /\ ui = UiIdle
  /\ captures = 0
  /\ backend = BackendIdle

Init ==
  /\ PageInit
  /\ dash = DashIdle
  /\ Mounting
  /\ faces \in CurrentDocs
  /\ variant \in {"part_002", "facesRepository"}
  /\ envUrl \in {e \in BOOLEAN : e => variant = "part_002"}
  /\ enroll = EnrollIdle
  /\ profile = ProfileIdle
  /\ stamps = [u \in Users |-> NoStamps]

Next ==
  \/ MountEffect
  \/ MountCatch
  \/ ClearError
  \/ \E p \in Procs : LoadModelsLoaded(p)
  \/ \E p \in Procs : LoadModelsJoin(p)
  \/ \E p \in Procs : LoadModelsStart(p)
  \/ \E task \in loadTasks : LoadSourceOk(task)
  \/ \E task \in loadTasks : LoadSourceNext(task)
  \/ \E task \in loadTasks : LoadSourceFail(task)
  \/ \E p \in Procs : AwaitLoad(p)
  \/ \E p \in Procs : LfmList(p)
  \/ \E p \in Procs : LfmListFails(p)
  \/ \E p \in Procs : LfmBuild(p)
  \/ \E p \in Procs : LfmBuildThrows(p)
  \/ \E face \in CapturedFaces : HC_Start(face)
  \/ HC_Detect
  \/ HC_GetFace
  \/ HC_Upsert
  \/ HC_AddGet
  \/ HC_AddSet
  \/ HC_Recognize
  \/ HC_Lookup
  \/ HC_Register
  \/ HC_Catch

Spec == Init /\ [][Next]_vars

(***************************************************************************)
(* SpecLegacy: the earlier presence page (pages/PresencePage.tsx) over the *)
(* earlier service (part_001), whose profiles hold embedding lists.        *)
(***************************************************************************)
\* handleCapture up to  await recognizeUserByFace(image).
L_Start(face) ==
  /\ CanCapture
  /\ variant = "part_001"
  /\ captures' = captures + 1
  /\ cap' = [CapIdle EXCEPT !.face = face, !.attempt = captures + 1,
                            !.before = faces[LoggedUser]]
  /\ ui' = [ui EXCEPT !.loading = TRUE, !.error = FALSE,
                      !.status = "processing"]
  /\ pc' = [pc EXCEPT !["capture"] = "l_recognize"]
  /\ UNCHANGED <<storeVars, svcVars, restVars, retLoad, retLfm, awaiting, snap, backend,
                 dash>>

\* recognizeUserByFace (part_001:33-66).
L_Recognize ==
  /\ pc["capture"] = "l_recognize"
  /\ IF ~matcher.built
     THEN /\ CallLoadFaceMatcher("capture", "l_recognize")
          /\ cap' = cap
     ELSE LET r == recognizeResult(matcher, cap.face, DefaultThreshold)
          IN /\ cap' = [cap EXCEPT !.result = r, !.called = TRUE]
             /\ pc' = [pc EXCEPT !["capture"] =
                         IF r.recognized THEN "l_lookup" ELSE "l_decide"]
             /\ UNCHANGED <<retLoad, retLfm>>
  /\ UNCHANGED <<storeVars, svcVars, restVars, awaiting, snap, ui, captures, backend, dash>>

L_Lookup ==
  /\ pc["capture"] = "l_lookup"
  /\ \E ok \in BOOLEAN :
       IF ok
       THEN /\ pc' = [pc EXCEPT !["capture"] = "l_decide"]
            /\ cap' = cap
       ELSE /\ pc' = [pc EXCEPT !["capture"] = "l_catch"]
            /\ cap' = [cap EXCEPT !.storeFailed = TRUE]
  /\ UNCHANGED <<storeVars, svcVars, restVars, retLoad, retLfm, awaiting, snap, ui,
                 captures, backend, dash>>

\* The three outcomes of pages/PresencePage.tsx:61-91: no match writes a
\* 'denied' record, another identity writes nothing, the claimant writes a
\* 'present' record.
L_Decide ==
  /\ pc["capture"] = "l_decide"
  /\ \E ok \in BOOLEAN :
       IF ~cap.result.recognized
       THEN IF ok
            THEN /\ presences' = Append(presences,
                      PresenceLegacy(LoggedUser, "denied", cap.result, cap.attempt))
                 /\ Finish([ui EXCEPT !.error = TRUE, !.status = "denied"])
                 /\ cap' = [cap EXCEPT !.writes = @ + 1]
            ELSE /\ presences' = presences
                 /\ pc' = [pc EXCEPT !["capture"] = "l_catch"]
                 /\ ui' = [ui EXCEPT !.error = TRUE]
                 /\ cap' = [cap EXCEPT !.storeFailed = TRUE, !.writes = @ + 1]
       ELSE IF cap.result.userId # LoggedUser
       THEN /\ presences' = presences
            /\ Finish([ui EXCEPT !.error = TRUE, !.status = "other-user"])
            /\ cap' = cap
       ELSE IF ok
            THEN /\ presences' = Append(presences,
                      PresenceLegacy(LoggedUser, "present", cap.result, cap.attempt))
                 /\ Finish([ui EXCEPT !.success = Len(presences) + 1,
                                       !.status = "registered"])
                 /\ cap' = [cap EXCEPT !.writes = @ + 1]
            ELSE /\ presences' = presences
                 /\ pc' = [pc EXCEPT !["capture"] = "l_catch"]
                 /\ ui' = ui
                 /\ cap' = [cap EXCEPT !.storeFailed = TRUE, !.writes = @ + 1]
  /\ UNCHANGED <<faces, now, svcVars, restVars, retLoad, retLfm, awaiting, snap, captures,
                 backend, dash>>

\* catch: setError('Erro ao reconhecer rosto.'); finally setLoading(false).
L_Catch ==
  /\ pc["capture"] = "l_catch"
  /\ Finish([ui EXCEPT !.error = TRUE, !.status = "ready"])
  /\ cap' = [cap EXCEPT !.threw = TRUE]
  /\ UNCHANGED <<storeVars, svcVars, restVars, retLoad, retLfm, awaiting, snap, captures,
                 backend, dash>>

LegacyDocs ==
  {f \in [Users -> {NoDoc, ListDoc(TRUE, <<<<0>>>>),
                    ListDoc(TRUE, <<<<MaxCoord>>>>),
                    ListDoc(FALSE, <<<<MaxCoord>>>>)}] :
     f["u2"] \in {NoDoc, ListDoc(TRUE, <<<<0>>>>)}}

LegacyInit ==
  /\ PageInit
  /\ dash = DashIdle
  /\ Mounting
  /\ faces \in CurrentDocs
  /\ faces \in LegacyDocs
  /\ variant = "part_001"
  /\ envUrl = FALSE
  /\ enroll = EnrollIdle
  /\ profile = ProfileIdle
  /\ stamps = [u \in Users |-> NoStamps]

LegacyNext ==
  \/ MountEffect
  \/ MountCatch
  \/ ClearError
  \/ \E p \in Procs : LoadModelsLoaded(p)
  \/ \E p \in Procs : LoadModelsLegacy(p)
  \/ \E task \in loadTasks : LoadSourceOk(task)
  \/ \E task \in loadTasks : LoadSourceFail(task)
  \/ \E p \in Procs : AwaitLoad(p)
  \/ \E p \in Procs : LfmList(p)
  \/ \E p \in Procs : LfmListFails(p)
  \/ \E p \in Procs : LfmBuild(p)
  \/ \E p \in Procs : LfmBuildThrows(p)
  \/ \E face \in CapturedFaces : L_Start(face)
  \/ L_Recognize
  \/ L_Lookup
  \/ L_Decide
  \/ L_Catch

SpecLegacy == LegacyInit /\ [][LegacyNext]_vars

(***************************************************************************)
(* Properties of the presence page and of loadModels.                      *)
(***************************************************************************)
PendingAwaited ==
  {awaiting[p] : p \in {q \in Procs : pc[q] = "awaitLoad"
                                     /\ promiseState[awaiting[q]] = "pending"}}

\* C1: loadModels is single-flight: at most one load is in progress at any
\* time, the callers that wait during a load all await that same load, and
\* nothing is loading once the loaded flag is true.
C1_SingleFlight ==
  /\ Cardinality(loadTasks) <= 1
  /\ Cardinality(PendingAwaited) <= 1
  /\ loaded => loadTasks = {}

\* A second caller started its own load while one was in flight.
C1_TwoLoads == Cardinality(loadTasks) = 2

LogPrefixes ==
  {<<>>, <<"persist">>, <<"persist", "rebuild">>,
   <<"persist", "rebuild", "match">>}

SampleStored ==
  /\ faces[LoggedUser].exists
  /\ faces[LoggedUser].kind = "map"
  /\ \E k \in DOMAIN faces[LoggedUser].map : faces[LoggedUser].map[k] = cap.embedding

AttemptRecords ==
  {i \in DOMAIN presences : presences[i].attempt = cap.attempt}

AttemptOver == pc["capture"] = "idle" /\ cap.attempt > 0

\* C3: an attempt in which a face was detected, the matcher returned and no
\* store call failed ends with exactly one presence record, of status
\* 'present', whatever the matcher returned.
C3_OnePresentRecord ==
  (AttemptOver /\ cap.face # NoFace /\ cap.called /\ ~cap.storeFailed)
    => /\ Cardinality(AttemptRecords) = 1
       /\ \A i \in AttemptRecords : presences[i].status = "present"

\* C4: a record written after the match has recognized = TRUE exactly when
\* the matcher accepted and its identity is the claimant, and carries the
\* matched identity in recognizedUserId whenever the matcher accepted.
C4_RecognizedIffClaimant ==
  \A i \in DOMAIN presences :
    (presences[i].afterMatch /\ presences[i].hasRecognized) =>
      /\ presences[i].recognized <=>
            (presences[i].matched.recognized
               /\ presences[i].matched.userId = presences[i].userId)
      /\ presences[i].recognizedUserId =
            IF presences[i].matched.recognized
            THEN presences[i].matched.userId ELSE "none"

\* A record of a match for another identity.
C4_OtherIdentityRecorded ==
  \E i \in DOMAIN presences :
    /\ presences[i].afterMatch
    /\ presences[i].matched.recognized
    /\ presences[i].matched.userId # presences[i].userId

\* C5: an attempt whose embedding step reported no face writes no presence
\* record and no sample, and leaves the page able to capture again.
C5_NoFaceNoWrite ==
  (AttemptOver /\ cap.face = NoFace /\ ~cap.threw)
    => /\ AttemptRecords = {}
       /\ faces[LoggedUser] = cap.before
       /\ ~ui.loading

(***************************************************************************)
(* SpecBackend: POST /api/attendance/check-in (backend/server.js).         *)
(* Distances are in tenths of a metre, times in minutes.                   *)
(***************************************************************************)
Metres(m) == m * 10

\* Math.round of a distance, in metres.
Round(d) == (d + 5) \div 10

ErrorResponse(status, reason) ==
  [sent |-> TRUE, status |-> status, hasSuccess |-> FALSE, success |-> FALSE,
   error |-> reason, distance |-> -1]

\* res.status(400).json({ success: false, error: error.message }).
FailureResponse(reason, distance) ==
  [sent |-> TRUE, status |-> 400, hasSuccess |-> TRUE, success |-> FALSE,
   error |-> reason, distance |-> distance]

\* res.json({ success: true, ..., data: { ..., distance } }).
SuccessResponse(distance) ==
  [sent |-> TRUE, status |-> 200, hasSuccess |-> TRUE, success |-> TRUE,
   error |-> "", distance |-> distance]

\* WHERE id = $1 AND start_time <= NOW() + INTERVAL '15 minutes'
\*              AND end_time >= NOW() - INTERVAL '15 minutes'.
ClassRowFound(cls, t) ==
  /\ cls.exists
  /\ cls.startTime <= t + GraceMinutes
  /\ cls.endTime >= t - GraceMinutes

\* throw inside the try block: control goes to the catch clause.
Throw(reason, distance, infra) ==
  backend' = [backend EXCEPT !.phase = "catch",
                             !.res = FailureResponse(reason, distance),
                             !.infraFailed = backend.infraFailed \/ infra]

\* requireAuth, the two early returns, pool.connect() and BEGIN.
B_Receive(req, cls) ==
  /\ backend.phase = "none"
  /\ \E ok \in BOOLEAN :
       LET b == [backend EXCEPT !.req = req, !.cls = cls]
       IN IF ~req.token
          THEN backend' = [b EXCEPT !.phase = "done",
                                    !.res = ErrorResponse(401, "token")]
          ELSE IF ~req.file
          THEN backend' = [b EXCEPT !.phase = "done",
                                    !.res = ErrorResponse(400, "selfie")]
          ELSE IF ~req.gps
          THEN backend' = [b EXCEPT !.phase = "done",
                                    !.res = ErrorResponse(400, "gps")]
          ELSE IF ~ok
          THEN backend' = [b EXCEPT !.phase = "hung", !.infraFailed = TRUE]
          ELSE backend' = [b EXCEPT !.phase = "begun"]
  /\ UNCHANGED <<storeVars, svcVars, restVars, pageVars, dash>>

\* The class query, rowCount === 0, and distance_meters > MAX_DISTANCE.
B_ClassQuery ==
  /\ backend.phase = "begun"
  /\ \E ok \in BOOLEAN :
       IF ~ok THEN Throw("database", -1, TRUE)
       ELSE IF ~ClassRowFound(backend.cls, backend.req.t)
       THEN Throw("class", -1, FALSE)
       ELSE IF backend.req.distance > Metres(MAX_DISTANCE)
       THEN Throw("distance", Round(backend.req.distance), FALSE)
       ELSE backend' = [backend EXCEPT !.phase = "classChecked"]
  /\ UNCHANGED <<storeVars, svcVars, restVars, pageVars, dash>>

\* The Azure detect call and the rules on its answer.
B_Azure ==
  /\ backend.phase = "classChecked"
  /\ IF backend.req.azure = "ok"
     THEN backend' = [backend EXCEPT !.phase = "faceChecked"]
     ELSE Throw(backend.req.azure, -1, FALSE)
  /\ UNCHANGED <<storeVars, svcVars, restVars, pageVars, dash>>

\* INSERT INTO attendance_audit ... inside the transaction.
B_Insert ==
  /\ backend.phase = "faceChecked"
  /\ \E ok \in BOOLEAN :
       IF ok
       THEN backend' = [backend EXCEPT !.phase = "inserted", !.tx = 1]
       ELSE Throw("database", -1, TRUE)
  /\ UNCHANGED <<storeVars, svcVars, restVars, pageVars, dash>>

\* COMMIT, then the success response.
B_Commit ==
  /\ backend.phase = "inserted"
  /\ \E ok \in BOOLEAN :
       IF ok
       THEN backend' = [backend EXCEPT
                          !.phase = "done", !.audit = backend.audit + backend.tx,
                          !.tx = 0,
                          !.res = SuccessResponse(Round(backend.req.distance))]
       ELSE Throw("database", -1, TRUE)
  /\ UNCHANGED <<storeVars, svcVars, restVars, pageVars, dash>>

\* catch: ROLLBACK, then the 400 response.
B_Catch ==
  /\ backend.phase = "catch"
  /\ backend' = [backend EXCEPT !.phase = "done", !.tx = 0, !.rolledBack = TRUE]
  /\ UNCHANGED <<storeVars, svcVars, restVars, pageVars, dash>>

ClassStart == 2 * GraceMinutes
ClassEnd == 4 * GraceMinutes

RequestTimes ==
  {ClassStart - GraceMinutes - 1, ClassStart - GraceMinutes, ClassStart,
   ClassEnd + GraceMinutes, ClassEnd + GraceMinutes + 1}

RequestDistances ==
  {Metres(MAX_DISTANCE) - 100, Metres(MAX_DISTANCE), Metres(MAX_DISTANCE) + 4,
   Metres(MAX_DISTANCE) + 150}

ClassRadii == {MAX_DISTANCE - 10, MAX_DISTANCE, MAX_DISTANCE + 20}

AzureAnswers == {"ok", "azure-error", "no-face", "many-faces", "blur", "noise"}

Requests ==
  [token : BOOLEAN, file : BOOLEAN, gps : BOOLEAN, t : RequestTimes,
   distance : RequestDistances, azure : AzureAnswers]

Classes ==
  {NoClass} \cup [exists : {TRUE}, startTime : {ClassStart},
                  endTime : {ClassEnd}, radius : ClassRadii]

BackendInit ==
  /\ PageInit
  /\ dash = DashIdle
  /\ faces = [u \in Users |-> NoDoc]
  /\ variant = "part_002"
  /\ envUrl = FALSE
  /\ enroll = EnrollIdle
  /\ profile = ProfileIdle
  /\ stamps = [u \in Users |-> NoStamps]
  /\ pc = [p \in Procs |-> "idle"]

BackendNext ==
  \/ \E req \in Requests, cls \in Classes : B_Receive(req, cls)
  \/ B_ClassQuery
  \/ B_Azure
  \/ B_Insert
  \/ B_Commit
  \/ B_Catch

SpecBackend == BackendInit /\ [][BackendNext]_vars

\* The checks the endpoint runs all pass for the request.
ChecksPass ==
  /\ backend.req.token /\ backend.req.file /\ backend.req.gps
  /\ backend.cls.exists
  /\ backend.req.t \in (backend.cls.startTime - GraceMinutes)
                        ..(backend.cls.endTime + GraceMinutes)
  /\ backend.req.distance <= Metres(MAX_DISTANCE)
  /\ backend.req.azure = "ok"

\* C6: once the endpoint is through with a request, an audit row is
\* committed exactly when every check passed (and no database call failed);
\* otherwise nothing of the transaction remains and the response is
\* success:false with a reason.
C6_AtomicAcceptReject ==
  backend.phase \in {"done", "hung"} =>
    /\ backend.audit = 1 <=> (ChecksPass /\ ~backend.infraFailed)
    /\ backend.audit = 0 =>
         /\ backend.tx = 0
         /\ backend.res.sent
         /\ backend.res.hasSuccess /\ ~backend.res.success
         /\ backend.res.error # ""

\* C7: a request that reached the distance check is rejected for its
\* distance exactly when the distance exceeds the class's own radius, and
\* the rejection carries the measured distance (in whole metres).
C7_RejectsBeyondClassRadius ==
  (backend.phase = "done" /\ backend.res.hasSuccess
     /\ ClassRowFound(backend.cls, backend.req.t) /\ ~backend.infraFailed)
    => /\ backend.res.error = "distance"
            <=> backend.req.distance > Metres(backend.cls.radius)
       /\ backend.res.error = "distance"
            => backend.res.distance = Round(backend.req.distance)

(***************************************************************************)
(* SpecDashboard: the Dashboard check-in and check-out (part_004) over the *)
(* local api service (services/api.ts).                                    *)
(***************************************************************************)
DashClasses == {"class_101", "class_102"}

Positions == {"p1", "p2"}

\* What getPosition rejects with: a GeolocationPositionError (code 1
\* permission denied, code 3 timeout), whose message may be empty, or the
\* Error of an unsupported device.
GeoErrors ==
  {[code |-> 1, message |-> ""], [code |-> 1, message |-> "User denied Geolocation"],
   [code |-> 3, message |-> ""], [code |-> 3, message |-> "Timeout expired"],
   [code |-> 0, message |-> "Geolocalização não suportada neste dispositivo."]}

\* What api.checkInWithFace rejects with: validateFaceWithGemini's Error.
ApiErrors ==
  {[code |-> 0, message |-> "reason given by the vision check"],
   [code |-> 0, message |-> "Falha na validação facial. Tente novamente."]}

\* let msg = "Falha no registro."; if (err.code === 1) msg = ...;
\* if (err.message) msg = err.message.
FailureMessage(err) ==
  IF err.message # "" THEN err.message
  ELSE IF err.code = 1 THEN "Permissão de localização negada."
  ELSE "Falha no registro."

\* A catch clause that also closes the camera.
HandleFailureClosing(d, err) ==
  [d EXCEPT !.cameraError = FailureMessage(err),
            !.statusMessage = FailureMessage(err),
            !.showCamera = FALSE,
            !.loading = FALSE, !.phase = "idle", !.outcome = "failed"]

\* catch (err) { setCameraError(msg); setStatusMessage(...) } finally
\* { setLoading(false) }  (part_004:108-124).
HandleFailure(d, err) ==
  [d EXCEPT !.cameraError = FailureMessage(err),
            !.statusMessage = FailureMessage(err),
            !.loading = FALSE, !.phase = "idle", !.outcome = "failed"]

\* The record api.checkInWithFace returns (api.ts:134-143).
CheckInRecord(classId, position, t) ==
  [id |-> t + 1, classId |-> classId, studentId |-> "google-1029384756",
   checkInTime |-> t, checkInLocation |-> position,
   checkOutTime |-> -1, checkOutLocation |-> "none", status |-> "present"]

\* A class card that offers its button whatever the open record.
CheckInOfferedWhileOpen(d, classId) == d.isActive[classId]

\* {cls.isActive && !activeRecord ? <Button onClick={() =>
\* initiateCheckIn(cls.id)}> ...}  (part_004:246-258).
CheckInOffered(d, classId) ==
  /\ d.isActive[classId]
  /\ d.activeRecord = NoRecord

\* initiateCheckIn(cls.id), offered by the class card; the camera overlay,
\* when shown, covers the class list.
D_InitiateCheckIn(classId) ==
  /\ ~dash.showCamera
  /\ CheckInOffered(dash, classId)
  /\ dash' = [dash EXCEPT !.selectedClassId = classId, !.cameraError = "",
                          !.showCamera = TRUE, !.statusMessage = "info"]
  /\ UNCHANGED <<storeVars, svcVars, restVars, pageVars, backend>>

\* handleFaceCapture up to  await getPosition(); the handler keeps the
\* selectedClassId of the render it was called in (capturedClassId).
D_Capture ==
  /\ dash.showCamera
  /\ ~dash.loading
  /\ dash.cameraError = ""
  /\ dash.attempts < MaxCaptures
  /\ dash.selectedClassId # "none"
  /\ dash' = [dash EXCEPT !.loading = TRUE, !.cameraError = "",
                          !.phase = "d_position", !.outcome = "none",
                          !.capturedClassId = dash.selectedClassId,
                          !.attempts = dash.attempts + 1]
  /\ UNCHANGED <<storeVars, svcVars, restVars, pageVars, backend>>

D_Position(position) ==
  /\ dash.phase = "d_position"
  /\ dash' = [dash EXCEPT !.phase = "d_api", !.position = position]
  /\ UNCHANGED <<storeVars, svcVars, restVars, pageVars, backend>>

D_PositionFails(err) ==
  /\ dash.phase = "d_position"
  /\ dash' = HandleFailure(dash, err)
  /\ UNCHANGED <<storeVars, svcVars, restVars, pageVars, backend>>

\* api.checkInWithFace resolved: setActiveRecord(record);
\* setShowCamera(false); the success message.  openRecords counts the
\* records the service opened and has not closed.
D_CheckedIn ==
  /\ dash.phase = "d_api"
  /\ \E t \in ClockReads :
       /\ now' = t
       /\ dash' = [dash EXCEPT
                     !.activeRecord = CheckInRecord(dash.capturedClassId,
                                                    dash.position, t),
                     !.checkInResult = CheckInRecord(dash.capturedClassId,
                                                     dash.position, t),
                     !.openRecords = dash.openRecords + 1,
                     !.checkOutResult = NoRecord,
                     !.showCamera = FALSE, !.statusMessage = "success",
                     !.loading = FALSE, !.phase = "idle", !.outcome = "ok"]
  /\ UNCHANGED <<faces, presences, svcVars, restVars, pageVars, backend>>

D_CheckInFails(err) ==
  /\ dash.phase = "d_api"
  /\ dash' = HandleFailure(dash, err)
  /\ UNCHANGED <<storeVars, svcVars, restVars, pageVars, backend>>

\* 'Tentar Novamente': onClearError = () => setCameraError(null).
D_ClearError ==
  /\ dash.showCamera
  /\ dash.cameraError # ""
  /\ dash' = [dash EXCEPT !.cameraError = ""]
  /\ UNCHANGED <<storeVars, svcVars, restVars, pageVars, backend>>

\* onCancel = () => setShowCamera(false).
D_Cancel ==
  /\ dash.showCamera
  /\ dash' = [dash EXCEPT !.showCamera = FALSE]
  /\ UNCHANGED <<storeVars, svcVars, restVars, pageVars, backend>>

\* handleCheckOut up to  await getPosition(); the button is part of the
\* active-record card and is disabled while loading.  The handler's
\* `position` is not yet bound.
D_CheckOut ==
  /\ dash.activeRecord # NoRecord
  /\ ~dash.loading
  /\ ~dash.showCamera
  /\ dash' = [dash EXCEPT !.loading = TRUE, !.phase = "o_position",
                          !.position = "none"]
  /\ UNCHANGED <<storeVars, svcVars, restVars, pageVars, backend>>

\* const position = await getPosition();  (part_004:131).
D_OutPosition(position) ==
  /\ dash.phase = "o_position"
  /\ dash' = [dash EXCEPT !.phase = "o_api", !.position = position]
  /\ UNCHANGED <<storeVars, svcVars, restVars, pageVars, backend>>

\* api.checkOut(token, recordId, lat, lng): the record it resolves to, with
\* classId "class_101", two readings of the clock and the given position.
CheckOutRecord(recordId, position, t1, t2) ==
  [id |-> recordId, classId |-> "class_101", studentId |-> "google-1029384756",
   checkInTime |-> t1, checkInLocation |-> position,
   checkOutTime |-> t2, checkOutLocation |-> position, status |-> "completed"]

\* api.checkOut resolved: setActiveRecord(null); the record api.checkOut
\* resolved to is not kept by the page.
D_CheckedOut ==
  /\ dash.phase = "o_api"
  /\ \E t1 \in ClockReads :
       \E t2 \in {t \in {t1, t1 + 1} : t <= MaxClock} :
         /\ now' = t2
         /\ dash' = [dash EXCEPT
                       !.activeRecord = NoRecord,
                       !.checkOutResult =
                          CheckOutRecord(dash.activeRecord.id, dash.position,
                                         t1, t2),
                       !.statusMessage = "Saída registrada.",
                       !.openRecords = dash.openRecords - 1,
                       !.loading = FALSE, !.phase = "idle"]
  /\ UNCHANGED <<faces, presences, svcVars, restVars, pageVars, backend>>

\* A catch clause that also drops the open record.
CheckOutFailureClosing(d) ==
  [d EXCEPT !.statusMessage = "Erro ao registrar saída.",
            !.activeRecord = NoRecord,
            !.loading = FALSE, !.phase = "idle"]

\* catch (err) { setStatusMessage('Erro ao registrar saída.') } finally
\* { setLoading(false) }  (part_004:135-139).
CheckOutFailure(d) ==
  [d EXCEPT !.statusMessage = "Erro ao registrar saída.",
            !.loading = FALSE, !.phase = "idle"]

\* getPosition rejected, or the api.checkOut call did: both awaits are in
\* the one try block.
D_CheckOutFails ==
  /\ dash.phase \in {"o_position", "o_api"}
  /\ dash' = CheckOutFailure(dash)
  /\ UNCHANGED <<storeVars, svcVars, restVars, pageVars, backend>>

DashboardInit ==
  /\ PageInit
  /\ \E active \in [DashClasses -> BOOLEAN] :
       dash = [DashIdle EXCEPT !.isActive = active]
  /\ pc = [p \in Procs |-> "idle"]
  /\ faces = [u \in Users |-> NoDoc]
  /\ variant = "part_002"
  /\ envUrl = FALSE
  /\ enroll = EnrollIdle
  /\ profile = ProfileIdle
  /\ stamps = [u \in Users |-> NoStamps]

DashboardNext ==
  \/ \E classId \in DashClasses : D_InitiateCheckIn(classId)
  \/ D_Capture
  \/ \E position \in Positions : D_Position(position)
  \/ \E err \in GeoErrors : D_PositionFails(err)
  \/ D_CheckedIn
  \/ \E err \in ApiErrors : D_CheckInFails(err)
  \/ D_ClearError
  \/ D_Cancel
  \/ D_CheckOut
  \/ \E position \in Positions : D_OutPosition(position)
  \/ D_CheckedOut
  \/ D_CheckOutFails

SpecDashboard == DashboardInit /\ [][DashboardNext]_vars

\* The step in which a check-in attempt ends in failure.
CheckInFailed ==
  /\ dash.phase \in {"d_position", "d_api"}
  /\ dash'.phase = "idle"
  /\ dash'.outcome = "failed"

\* C8: the step that ends a check-in attempt in failure leaves the active
\* record empty and unchanged, the camera as it was (open, unless the user
\* closed it), and the selected class and the user unchanged; the error is
\* shown and a new capture is not blocked by loading.
C8_FailureKeepsSession ==
  [][CheckInFailed =>
       /\ dash'.activeRecord = NoRecord
       /\ dash'.activeRecord = dash.activeRecord
       /\ dash'.showCamera = dash.showCamera
       /\ dash'.selectedClassId = dash.selectedClassId
       /\ dash'.user = dash.user
       /\ dash'.cameraError # ""
       /\ ~dash'.loading]_vars

\* A failed attempt with the camera still open on the selected class.
C8_FailedCameraOpen ==
  /\ dash.phase = "idle"
  /\ dash.outcome = "failed"
  /\ dash.showCamera
  /\ dash.selectedClassId \in DashClasses
  /\ dash.activeRecord = NoRecord

(***************************************************************************)
(* SpecMatcher: the service's matcher called directly, on every small      *)
(* store, probe and threshold.                                             *)
(***************************************************************************)
SampleCoords == {0, 1, MaxCoord}
ProbeCoords == {0, 1, DefaultThreshold, MaxCoord}
Thresholds == (0..MaxThreshold) \cup {DefaultThreshold}

SampleLists ==
  {<<>>} \cup {<< <<x>> >> : x \in SampleCoords}
         \cup {<< <<x>>, <<y>> >> : x \in SampleCoords, y \in SampleCoords}

MatcherInit ==
  /\ faces \in [Users -> {NoDoc} \cup {ListDoc(a, l) : a \in BOOLEAN, l \in SampleLists}]
  /\ presences = <<>>
  /\ now = 0
  /\ variant = "part_002"
  /\ envUrl = FALSE
  /\ enroll = EnrollIdle
  /\ profile = ProfileIdle
  /\ stamps = [u \in Users |-> NoStamps]
  /\ ServiceInit
  /\ PageIdle
  /\ backend = BackendIdle
  /\ dash = DashIdle

\* loadFaceMatcher(threshold) with the models loaded: lines 59-62.
Svc_loadFaceMatcher(t) ==
  /\ ~BuildThrows(listActiveFaces(faces))
  /\ matcher' = BuildMatcher(listActiveFaces(faces), t)
  /\ cap' = [cap EXCEPT !.called = FALSE, !.threw = FALSE]
  /\ UNCHANGED <<faces, presences, now, variant, loaded, loadingPromise,
                 promiseState, loadTasks, loadsStarted, envUrl, restVars, pc, retLoad,
                 retLfm, awaiting, snap, ui, captures, backend, dash>>

\* loadFaceMatcher(threshold) throwing: the matcher keeps its value.
Svc_loadFaceMatcherThrows ==
  /\ BuildThrows(listActiveFaces(faces))
  /\ cap' = [cap EXCEPT !.called = FALSE, !.threw = TRUE]
  /\ UNCHANGED <<faces, presences, now, variant, loaded, loadingPromise,
                 promiseState, loadTasks, loadsStarted, envUrl, restVars, matcher, pc,
                 retLoad, retLfm, awaiting, snap, ui, captures, backend, dash>>

\* if (!matcher) await loadFaceMatcher(threshold): the gallery as last
\* built, and a new one only when none exists (lines 72-75).
\* RebuiltMatcher is the variant that builds a gallery on every call.
RebuiltMatcher(m, faceList, t) == BuildMatcher(faceList, t)

MatcherForRecognize(m, faceList, t) ==
  IF m.built THEN m ELSE BuildMatcher(faceList, t)

\* recognizeUserByFace(input, threshold) returning a result: lines 72-98.
Svc_recognizeUserByFace(probe, t) ==
  /\ matcher.built \/ ~BuildThrows(listActiveFaces(faces))
  /\ matcher' = MatcherForRecognize(matcher, listActiveFaces(faces), t)
  /\ cap' = [cap EXCEPT !.face = probe, !.threshold = t, !.called = TRUE,
                        !.threw = FALSE,
                        !.result = recognizeResult(matcher', probe, t)]
  /\ UNCHANGED <<faces, presences, now, variant, loaded, loadingPromise,
                 promiseState, loadTasks, loadsStarted, envUrl, restVars, pc,
                 retLoad, retLfm, awaiting, snap, ui, captures, backend, dash>>

\* recognizeUserByFace(input, threshold) without a matcher, loadFaceMatcher
\* throwing at line 73: the call rejects and no matcher is set.
Svc_recognizeUserByFaceThrows(probe, t) ==
  /\ ~matcher.built
  /\ BuildThrows(listActiveFaces(faces))
  /\ cap' = [cap EXCEPT !.face = probe, !.threshold = t, !.called = TRUE,
                        !.threw = TRUE, !.result = NoResult]
  /\ UNCHANGED <<faces, presences, now, variant, loaded, loadingPromise,
                 promiseState, loadTasks, loadsStarted, envUrl, restVars, matcher, pc,
                 retLoad, retLfm, awaiting, snap, ui, captures, backend, dash>>

MatcherProbes == {<<x>> : x \in ProbeCoords} \cup {NoFace}

MatcherNext ==
  \/ \E t \in Thresholds : Svc_loadFaceMatcher(t)
  \/ Svc_loadFaceMatcherThrows
  \/ \E probe \in MatcherProbes, t \in Thresholds :
        Svc_recognizeUserByFace(probe, t)
  \/ \E probe \in MatcherProbes, t \in Thresholds :
        Svc_recognizeUserByFaceThrows(probe, t)

SpecMatcher == MatcherInit /\ [][MatcherNext]_vars

(***************************************************************************)
(* What the matcher's gallery holds, sample by sample.                     *)
(***************************************************************************)
GallerySamples(m) ==
  UNION {{[label |-> m.labeled[i].label, vec |-> m.labeled[i].descriptors[j]] :
            j \in 1..Len(m.labeled[i].descriptors)} : i \in 1..Len(m.labeled)}

SampleDistances(m, q) == {euclideanDistance(s.vec, q) : s \in GallerySamples(m)}

GlobalMinimum(m, q) ==
  CHOOSE d \in SampleDistances(m, q) : \A e \in SampleDistances(m, q) : d <= e

\* A recognizeUserByFace call that detected a face, on a matcher built with
\* the threshold of the call from profiles that each hold a sample.
RecognizeCalled ==
  /\ cap.called
  /\ cap.face # NoFace
  /\ matcher.built
  /\ matcher.threshold = cap.threshold
  /\ \A i \in 1..Len(matcher.labeled) : Len(matcher.labeled[i].descriptors) > 0

(***************************************************************************)
(* C9: recognizeUserByFace accepts the best match exactly when its         *)
(* distance is at most the threshold: a distance equal to the threshold    *)
(* is accepted (<=, not <), a greater one rejected, for every threshold    *)
(* >= 0, a distance of 0 included.                                         *)
(***************************************************************************)
C9_AcceptsAtThreshold ==
  RecognizeCalled =>
    (cap.result.recognized <=>
       ~FracLess(Frac(cap.threshold, 1), matchDescriptor(matcher, cap.face).distance))

(***************************************************************************)
(* C10: an accepted match carries the label of a sample at the global      *)
(* minimum distance from the probe over all samples of the gallery, and    *)
(* reports that minimum as its distance.                                   *)
(***************************************************************************)
C10_GlobalMinimumSample ==
  (RecognizeCalled /\ cap.result.recognized) =>
    /\ GallerySamples(matcher) # {}
    /\ FracEq(cap.result.distance, Frac(GlobalMinimum(matcher, cap.face), 1))
    /\ \E s \in GallerySamples(matcher) :
          /\ s.label = cap.result.userId
          /\ euclideanDistance(s.vec, cap.face) = GlobalMinimum(matcher, cap.face)

(***************************************************************************)
(* The labeled samples the active profiles of a store hold, one per stored *)
(* vector.                                                                 *)
(***************************************************************************)
ActiveStoredSamples(store) ==
  UNION {{[label |-> u, vec |-> store[u].list[j]] : j \in 1..Len(store[u].list)} :
           u \in {v \in Users : store[v].exists /\ store[v].active}}

\* A recognizeUserByFace call that returned a match from the built gallery.
MatchReturned ==
  /\ cap.called
  /\ matcher.built
  /\ cap.result.recognized

(***************************************************************************)
(* C11: the gallery built by loadFaceMatcher holds exactly one labeled     *)
(* sample per stored vector of each profile active in the store at build   *)
(* time; inactive profiles and active profiles with zero embeddings        *)
(* contribute nothing (no label without a sample) and are never returned   *)
(* as a match from that gallery.  The store of this specification never    *)
(* changes, so the snapshot read at build time is faces.                   *)
(***************************************************************************)
C11_GalleryOfActiveSamples ==
  /\ matcher.built =>
       /\ GallerySamples(matcher) = ActiveStoredSamples(faces)
       /\ \A i \in 1..Len(matcher.labeled) :
             Len(matcher.labeled[i].descriptors) > 0
  /\ MatchReturned =>
       /\ faces[cap.result.userId].exists
       /\ faces[cap.result.userId].active
       /\ Len(faces[cap.result.userId].list) > 0

\* A profile without a sample was returned as the match of a probe.
C11_SamplelessMatched ==
  /\ MatchReturned
  /\ cap.face # NoFace
  /\ Len(faces[cap.result.userId].list) = 0

\* No active profile of the store holds a sample.
GalleryEmpty == ActiveStoredSamples(faces) = {}

(***************************************************************************)
(* C12: when the gallery is empty (no active profile with samples),        *)
(* building it succeeds, by loadFaceMatcher and by recognizeUserByFace     *)
(* alike, and every probe yields recognized:false, never an error.         *)
(***************************************************************************)
C12_EmptyGalleryNoMatch ==
  GalleryEmpty =>
    /\ ~cap.threw
    /\ cap.called => ~cap.result.recognized

\* A probe was answered with an error on an empty gallery.
C12_EmptyGalleryThrew ==
  /\ GalleryEmpty
  /\ cap.called
  /\ cap.face # NoFace
  /\ cap.threw

(***************************************************************************)
(* The faces repository and the recognition service side by side: two      *)
(* callers run store operations while the service builds and uses its      *)
(* gallery.  addEmbedding is two steps, its getDoc and its setDoc.  The    *)
(* pages write the profile of the logged user; any profile can be toggled  *)
(* or deleted.                                                             *)
(***************************************************************************)
StoreVectors == {<<1>>}

StoreDocs ==
  {NoDoc, ListDoc(TRUE, << <<0>>, <<1>> >>), MapDoc(TRUE, (TsKey(0) :> <<0>>))}

StoreInit ==
  /\ faces \in [Users -> StoreDocs]
  /\ presences = <<>>
  /\ now = 0
  /\ variant = "part_002"
  /\ envUrl = FALSE
  /\ enroll = EnrollIdle
  /\ profile = ProfileIdle
  /\ stamps = [u \in Users |-> NoStamps]
  /\ ServiceInit
  /\ PageIdle
  /\ backend = BackendIdle
  /\ dash = DashIdle

\* addEmbedding, lines 58-61: getDoc and normalizeEmbeddings of what it read.
Repo_addEmbeddingGet(p, u, emb) ==
  /\ pc[p] = "idle"
  /\ captures < MaxCaptures
  /\ captures' = captures + 1
  /\ pc' = [pc EXCEPT ![p] = "a_set"]
  /\ snap' = [snap EXCEPT ![p] = <<u, emb, normalizeEmbeddings(faces[u])>>]
  /\ UNCHANGED <<faces, presences, now, variant, loaded, loadingPromise,
                 promiseState, loadTasks, loadsStarted, envUrl, restVars, matcher,
                 retLoad, retLfm, awaiting, cap, ui, backend, dash>>

\* addEmbedding, lines 63-73: embeddingKey = Date.now().toString() and the
\* merging setDoc.
Repo_addEmbeddingSet(p) ==
  /\ pc[p] = "a_set"
  /\ \E t \in ClockReads :
        /\ now' = t
        /\ faces' = [faces EXCEPT ![snap[p][1]] =
                       addEmbeddingWrite(faces[snap[p][1]], snap[p][3],
                                         TsKey(t), snap[p][2])]
  /\ pc' = [pc EXCEPT ![p] = "idle"]
  /\ snap' = [snap EXCEPT ![p] = <<>>]
  /\ UNCHANGED <<presences, variant, loaded, loadingPromise, promiseState,
                 loadTasks, loadsStarted, envUrl, restVars,
                 matcher, retLoad, retLfm, awaiting, cap, ui, captures, backend,
                 dash>>

\* upsertFace(face) with one sample keyed by the clock, as the pages call it.
Repo_upsertFace(u, active, emb) ==
  /\ \E t \in ClockReads :
        /\ now' = t
        /\ faces' = [faces EXCEPT ![u] =
                       upsertFace(faces[u], active, (TsKey(t) :> emb))]
  /\ UNCHANGED <<presences, variant, loaded, loadingPromise, promiseState,
                 loadTasks, loadsStarted, envUrl, restVars,
                 matcher, pc, retLoad, retLfm, awaiting, snap, cap, ui, captures,
                 backend, dash>>

\* toggleFaceActive: updateDoc({active, updatedAt}) of an existing document.
Repo_toggleFaceActive(u, active) ==
  /\ faces[u].exists
  /\ faces' = [faces EXCEPT ![u].active = active]
  /\ UNCHANGED <<presences, now, variant, loaded, loadingPromise, promiseState,
                 loadTasks, loadsStarted, envUrl, restVars,
                 matcher, pc, retLoad, retLfm, awaiting, snap, cap, ui, captures,
                 backend, dash>>

\* deleteFace: deleteDoc.
Repo_deleteFace(u) ==
  /\ faces[u].exists
  /\ faces' = [faces EXCEPT ![u] = NoDoc]
  /\ UNCHANGED <<presences, now, variant, loaded, loadingPromise, promiseState,
                 loadTasks, loadsStarted, envUrl, restVars,
                 matcher, pc, retLoad, retLfm, awaiting, snap, cap, ui, captures,
                 backend, dash>>

StoreProbes == {<<0>>}

StoreNext ==
  \/ \E p \in Procs, emb \in StoreVectors :
        Repo_addEmbeddingGet(p, LoggedUser, emb)
  \/ \E p \in Procs : Repo_addEmbeddingSet(p)
  \/ \E active \in BOOLEAN, emb \in StoreVectors :
        Repo_upsertFace(LoggedUser, active, emb)
  \/ \E u \in Users, active \in BOOLEAN : Repo_toggleFaceActive(u, active)
  \/ \E u \in Users : Repo_deleteFace(u)
  \/ Svc_loadFaceMatcher(DefaultThreshold)
  \/ Svc_loadFaceMatcherThrows
  \/ \E probe \in StoreProbes : Svc_recognizeUserByFace(probe, DefaultThreshold)
  \/ \E probe \in StoreProbes :
        Svc_recognizeUserByFaceThrows(probe, DefaultThreshold)

SpecStore == StoreInit /\ [][StoreNext]_vars

(***************************************************************************)
(* C13: the built gallery is immutable.  No step that changes the store    *)
(* (addEmbedding, upsertFace, toggleFaceActive, deleteFace) changes the    *)
(* matcher; a recognizeUserByFace call leaves a built matcher as it is,    *)
(* builds one only when none exists, and computes its result from the      *)
(* gallery as last built; so the matcher changes only in a loadFaceMatcher *)
(* call (the steps that leave cap.called false).                           *)
(***************************************************************************)
C13_GalleryImmutable ==
  [][/\ faces' # faces => matcher' = matcher
     /\ (cap'.called /\ matcher.built) => matcher' = matcher
     /\ (cap'.called /\ ~cap'.threw /\ cap' # cap) =>
          cap'.result =
            recognizeResult(IF matcher.built THEN matcher ELSE matcher',
                            cap'.face, cap'.threshold)]_vars

\* A probe was matched to a profile that a store operation has since
\* deleted: the gallery still holds it.
C13_StaleGalleryKept ==
  /\ matcher.built
  /\ cap.called
  /\ cap.result.recognized
  /\ ~faces[cap.result.userId].exists
  /\ GallerySamples(matcher) # ActiveStoredSamples(faces)

(***************************************************************************)
(* C14: addEmbedding(userId, vector) appends.  When a call completes, the  *)
(* profile's stored sample mapping is the mapping stored just before plus  *)
(* exactly one new key mapped to the vector, and every earlier key keeps   *)
(* its vector; this for calls in the same clock tick and for concurrent    *)
(* calls too.                                                              *)
(***************************************************************************)
C14_AddEmbeddingAppends ==
  [][\A p \in Procs :
       (pc[p] = "a_set" /\ pc'[p] = "idle") =>
         LET old == normalizeEmbeddings(faces[snap[p][1]])
             new == normalizeEmbeddings(faces'[snap[p][1]])
         IN /\ \A k \in DOMAIN old : k \in DOMAIN new /\ new[k] = old[k]
            /\ \E k \in (DOMAIN new) \ (DOMAIN old) :
                  /\ DOMAIN new = (DOMAIN old) \cup {k}
                  /\ new[k] = snap[p][2]]_vars

(***************************************************************************)
(* FaceEnrollmentPage.averageEmbedding, a function of the page's samples,  *)
(* and the full upsert of the profile with those samples.  The samples are *)
(* drawn from vectors of every length up to MaxDim, so that samples of     *)
(* differing lengths are among the inputs.                                 *)
(***************************************************************************)
MaxSamples == 2
MaxDim == 2

AvgCoords == {0, 1, 3}
AvgVectors == UNION {[1..n -> AvgCoords] : n \in 1..MaxDim}
AvgSampleLists == UNION {[1..k -> AvgVectors] : k \in 0..MaxSamples}

\* undefined + value, and then NaN / samples.length.
NaN == Frac(0, 0)

\* sum[idx] after samples.forEach(...), for idx below samples[0].length.
RECURSIVE SumAt(_, _, _)
SumAt(samples, idx, i) ==
  IF i > Len(samples) THEN 0
  ELSE (IF idx <= Len(samples[i]) THEN samples[i][idx] ELSE 0)
       + SumAt(samples, idx, i + 1)

\* The length of sum after the loop: sum[idx] += value extends the array.
SumLength(samples) ==
  CHOOSE n \in {Len(samples[i]) : i \in 1..Len(samples)} :
    \A i \in 1..Len(samples) : Len(samples[i]) <= n

\* averageEmbedding: null without samples; else sum, of length
\* samples[0].length and filled with 0, divided by samples.length.
averageEmbedding(samples) ==
  IF Len(samples) = 0 THEN NoAverage
  ELSE [defined |-> TRUE,
        value |-> [idx \in 1..SumLength(samples) |->
                     IF idx <= Len(samples[1])
                     THEN Frac(SumAt(samples, idx, 1), Len(samples))
                     ELSE NaN]]

\* The embeddingAverage a stored profile carries: FaceDocument has no such
\* field and upsertFace writes none.
embeddingAverage(doc) == NoAverage

AverageDocs == {NoDoc, MapDoc(TRUE, (TsKey(0) :> <<1, 0>>))}

AverageInit ==
  /\ faces \in {[u \in Users |-> IF u = LoggedUser THEN d ELSE NoDoc] :
                  d \in AverageDocs}
  /\ enroll \in {[EnrollIdle EXCEPT !.samples = l] : l \in AvgSampleLists}
  /\ profile = ProfileIdle
  /\ stamps = [u \in Users |-> NoStamps]
  /\ presences = <<>>
  /\ now = 0
  /\ variant = "part_002"
  /\ envUrl = FALSE
  /\ ServiceInit
  /\ PageIdle
  /\ backend = BackendIdle
  /\ dash = DashIdle

\* The render that evaluates useMemo(averageEmbedding, [samples]).
Enroll_Render ==
  /\ ~enroll.rendered
  /\ enroll' = [enroll EXCEPT !.average = averageEmbedding(enroll.samples),
                              !.rendered = TRUE]
  /\ UNCHANGED <<storeVars, svcVars, pageVars, backend, dash, loadError, profile,
                 stamps>>

\* upsertFace({userId, embeddings: samples, active: true}) at a clock tick.
Enroll_upsertFace ==
  /\ ~enroll.saved
  /\ faces' = [faces EXCEPT ![LoggedUser] =
                 upsertFace(faces[LoggedUser], TRUE,
                            normalizeEmbeddings(ListDoc(TRUE, enroll.samples)))]
  /\ enroll' = [enroll EXCEPT !.saved = TRUE]
  /\ \E t \in ClockReads : now' = t
  /\ UNCHANGED <<presences, svcVars, pageVars, backend, dash, loadError, profile,
                 stamps>>

AverageNext ==
  \/ Enroll_Render
  \/ Enroll_upsertFace

SpecAverage == AverageInit /\ [][AverageNext]_vars

\* The sum of coordinate idx over the vectors stored under the keys ks.
RECURSIVE MapSumAt(_, _, _)
MapSumAt(m, ks, idx) ==
  IF ks = {} THEN 0
  ELSE LET k == CHOOSE x \in ks : TRUE
       IN m[k][idx] + MapSumAt(m, ks \ {k}, idx)

\* avg is the element-wise mean, of length n, of the vectors of the mapping.
IsMeanOf(avg, m, n) ==
  /\ avg.defined
  /\ Len(avg.value) = n
  /\ \A idx \in 1..n :
        /\ avg.value[idx].den > 0
        /\ avg.value[idx].num * Cardinality(DOMAIN m)
             = MapSumAt(m, DOMAIN m, idx) * avg.value[idx].den

(***************************************************************************)
(* C15: after a full upsert of a profile that then holds k >= 1 samples of *)
(* one length n, the profile's embeddingAverage is the length-n            *)
(* element-wise mean of all of its samples ([1,0] and [3,0] give [2,0]);   *)
(* a profile with zero samples has no average, not a zero vector.          *)
(***************************************************************************)
C15_AverageAfterUpsert ==
  enroll.saved =>
    LET m == normalizeEmbeddings(faces[LoggedUser])
        avg == embeddingAverage(faces[LoggedUser])
    IN IF DOMAIN m = {} THEN ~avg.defined
       ELSE \A n \in 1..MaxDim :
              (\A k \in DOMAIN m : Len(m[k]) = n) => IsMeanOf(avg, m, n)

\* The profile was upserted with the samples [1,0] and [3,0] and holds them.
C15_UpsertedTwoSamples ==
  /\ enroll.saved
  /\ enroll.samples = << <<1, 0>>, <<3, 0>> >>
  /\ Cardinality(DOMAIN normalizeEmbeddings(faces[LoggedUser])) >= 2

\* Two of the samples have different lengths.
LengthsDiffer(samples) ==
  \E i, j \in 1..Len(samples) : Len(samples[i]) # Len(samples[j])

(***************************************************************************)
(* C16: averaging samples whose lengths differ is rejected before any      *)
(* average is produced: the page holds no average for them, and the        *)
(* profile's stored average stays as it was (there is none).               *)
(***************************************************************************)
C16_MismatchRejected ==
  (enroll.rendered /\ LengthsDiffer(enroll.samples)) =>
    /\ ~enroll.average.defined
    /\ ~embeddingAverage(faces[LoggedUser]).defined

\* An average was produced from samples of differing lengths.
C16_MismatchAveraged ==
  /\ enroll.rendered
  /\ LengthsDiffer(enroll.samples)
  /\ enroll.average.defined

\* A check-in attempt is in flight and the user has cancelled the capture:
\* during an attempt the camera closes only through onCancel.
CancelledInFlight ==
  /\ dash.phase \in {"d_position", "d_api"}
  /\ ~dash.showCamera

(***************************************************************************)
(* C17: when the user cancels a capture whose processing is in flight, the *)
(* result of that processing is discarded: after the cancel the attempt    *)
(* sets no active attendance record and shows no success.                  *)
(***************************************************************************)
C17_CancelDiscardsResult ==
  [][CancelledInFlight =>
       /\ dash'.activeRecord = dash.activeRecord
       /\ dash'.statusMessage = "success" => dash.statusMessage = "success"
       /\ dash'.outcome # "ok"]_vars

(***************************************************************************)
(* C18: an attendance record is append-only.  The record check-out yields  *)
(* has the id, classId, studentId, checkInTime and checkInLocation of the  *)
(* record check-in produced; check-out only adds checkOutTime and          *)
(* checkOutLocation and moves the status to completed.                     *)
(***************************************************************************)
C18_CheckOutOnlyAdds ==
  dash.checkOutResult # NoRecord =>
    /\ dash.checkOutResult.id = dash.checkInResult.id
    /\ dash.checkOutResult.classId = dash.checkInResult.classId
    /\ dash.checkOutResult.studentId = dash.checkInResult.studentId
    /\ dash.checkOutResult.checkInTime = dash.checkInResult.checkInTime
    /\ dash.checkOutResult.checkInLocation = dash.checkInResult.checkInLocation
    /\ dash.checkOutResult.checkOutTime >= 0
    /\ dash.checkOutResult.checkOutLocation # "none"
    /\ dash.checkOutResult.status = "completed"

\* A check-out whose record carries the check-out position as its check-in
\* location.
C18_CheckInLocationReplaced ==
  /\ dash.checkOutResult # NoRecord
  /\ dash.checkInResult # NoRecord
  /\ dash.checkOutResult.checkInLocation # dash.checkInResult.checkInLocation

\* The attempt detected a face and its upsertFace or addEmbedding call
\* (part_005:80-90) failed with a store error.
PersistFailed ==
  /\ cap.attempt > 0
  /\ cap.embedding # NoFace
  /\ cap.persistFailed

(***************************************************************************)
(* C19: a store error while persisting the write-through sample does not   *)
(* abort the attempt: by its end the matcher has been called, and every    *)
(* attendance record of the attempt was written after the match and        *)
(* carries the match outcome.                                              *)
(***************************************************************************)
C19_PersistFailureStillMatches ==
  (AttemptOver /\ PersistFailed) =>
    /\ cap.called
    /\ \A i \in AttemptRecords :
          /\ presences[i].afterMatch
          /\ presences[i].matched = cap.result

\* The attempt ended with the fallback record and without a match.
C19_FallbackWithoutMatch ==
  /\ AttemptOver
  /\ PersistFailed
  /\ ~cap.called
  /\ \E i \in AttemptRecords : presences[i].note = "fallback"

(***************************************************************************)
(* C20: when writing the attendance record fails the failure is reported   *)
(* and the attempt makes no further write: within one attempt              *)
(* registerPresence is called at most once, and the step that ends an      *)
(* attempt whose write failed leaves the error shown.  cap.writes counts   *)
(* the registerPresence calls of the running attempt; a new capture starts *)
(* a new count.                                                            *)
(***************************************************************************)
C20_NoSecondWrite ==
  [][/\ cap'.writes <= 1
     /\ (/\ pc["capture"] # "idle"
         /\ pc'["capture"] = "idle"
         /\ cap'.writes > 0
         /\ \A i \in DOMAIN presences' : presences'[i].attempt # cap'.attempt)
        => ui'.error]_vars

\* The record write failed and the attempt wrote a second record, stored.
C20_RetriedWrite ==
  /\ AttemptOver
  /\ cap.called
  /\ cap.writes = 2
  /\ \E i \in AttemptRecords : presences[i].note = "fallback"

\* The sources of the service the page imports, in the order loadModels
\* walks them.
AllSources == [k \in 1..NumSources |-> k]

(***************************************************************************)
(* C21: when every model source fails, loadModels rejects with an error    *)
(* that names the sources tried (all of them, in order), loaded is set     *)
(* only by a source that loaded, and loadingPromise never stays on a       *)
(* rejected load, so that the next call starts a fresh one.  A load in     *)
(* progress has tried the sources 1..src in that order, and a load that    *)
(* has settled tries no further source.                                    *)
(***************************************************************************)
C21_FailedLoadReported ==
  /\ \A i \in 1..MaxLoads :
        promiseState[i] = "rejected" => loadError[i] = AllSources
  /\ loadingPromise # 0 => promiseState[loadingPromise] # "rejected"
  /\ loaded => \E i \in 1..MaxLoads : promiseState[i] = "resolved"
  /\ (/\ loadsStarted > 0
      /\ \A i \in 1..loadsStarted : promiseState[i] = "rejected")
       => (~loaded /\ loadingPromise = 0)
  /\ \A t \in loadTasks :
        /\ promiseState[t.owner] = "pending"
        /\ t.tried = [k \in 1..t.src |-> k]

\* The three sources of part_002 failed in turn, the error names them, and
\* the next call of loadModels has started a second load.
C21_FreshLoadAfterFailure ==
  /\ promiseState[1] = "rejected"
  /\ loadError[1] = <<1, 2, 3>>
  /\ promiseState[2] = "pending"
  /\ loadingPromise = 2
  /\ ~loaded

\* handleCheckOut is between its first statement and its finally clause.
CheckingOut == dash.phase \in {"o_position", "o_api"}

(***************************************************************************)
(* C22: check-out runs only on an open record, calls api.checkOut only     *)
(* after getPosition resolved within the same handleCheckOut, leaves the   *)
(* open record as it is when the position or the call fails, and closes    *)
(* it on success.  An open record is never replaced by another.            *)
(***************************************************************************)
C22_CheckOutOnOpenRecord ==
  [][/\ CheckingOut => dash.activeRecord # NoRecord
     /\ (~CheckingOut /\ dash'.phase \in {"o_position", "o_api"})
          => (dash'.phase = "o_position" /\ dash'.position = "none")
     /\ (dash.phase # "o_api" /\ dash'.phase = "o_api")
          => (dash.phase = "o_position" /\ dash'.position \in Positions)
     /\ (dash.activeRecord # NoRecord /\ dash'.activeRecord # dash.activeRecord)
          => /\ dash.phase = "o_api"
             /\ dash'.activeRecord = NoRecord
             /\ dash'.checkOutResult.id = dash.activeRecord.id
             /\ dash'.checkOutResult.checkOutLocation = dash.position
             /\ dash'.statusMessage = "Saída registrada."
     /\ (CheckingOut /\ dash'.phase = "idle")
          => \/ dash'.activeRecord = NoRecord
             \/ /\ dash'.activeRecord = dash.activeRecord
                /\ dash'.statusMessage = "Erro ao registrar saída."]_vars

\* A check-out that succeeded at a position other than the check-in's.
C22_CheckedOutElsewhere ==
  /\ dash.checkOutResult # NoRecord
  /\ dash.activeRecord = NoRecord
  /\ dash.checkOutResult.checkOutLocation # dash.checkInResult.checkInLocation

\* The message handleFaceCapture has for a denied permission (part_004:111).
DeniedMessage == "Permissão de localização negada."

(***************************************************************************)
(* C23: the message shown when getPosition fails tells permission denied   *)
(* from timeout, and neither is a message of a failed check-in call or     *)
(* the general failure message: a GeolocationPositionError of code 1       *)
(* always shows the permission-denied message, and one of code 3 shows a   *)
(* message that is neither that one nor one the check-in call produces.    *)
(***************************************************************************)
C23_LocationFailureMessages ==
  [][\A err \in GeoErrors :
       (dash.phase = "d_position" /\ dash' = HandleFailure(dash, err)) =>
         /\ err.code = 1 => dash'.cameraError = DeniedMessage
         /\ err.code = 3 => dash'.cameraError # DeniedMessage
         /\ err.code \in {1, 3} =>
              /\ dash'.cameraError # "Falha no registro."
              /\ \A e \in ApiErrors : dash'.cameraError # FailureMessage(e)]_vars

\* The permission was denied and the camera shows the browser's message.
C23_DeniedShowsBrowserMessage ==
  /\ dash.outcome = "failed"
  /\ dash.showCamera
  /\ dash.cameraError = "User denied Geolocation"
  /\ dash.statusMessage = "User denied Geolocation"

(***************************************************************************)
(* C24: after a store write of the attempt failed, the sample the attempt  *)
(* captured stays pending, so that the save is retried without capturing   *)
(* again: the handler run that follows a failed persist is not a new       *)
(* capture and works on the sample of the failed attempt.                  *)
(***************************************************************************)
C24_RetryWithoutRecapture ==
  [][(AttemptOver /\ PersistFailed /\ pc'["capture"] # "idle") =>
       /\ captures' = captures
       /\ cap'.face = cap.embedding]_vars

\* The attempt is over, its sample was not stored, and the page reports a
\* registered presence; the sample is in no state of the page.
C24_SampleLost ==
  /\ AttemptOver
  /\ PersistFailed
  /\ faces[LoggedUser] = cap.before
  /\ ui.success > 0
  /\ ~ui.loading

(***************************************************************************)
(* SpecProfile: FaceProfilePage (pages/PresencePage.tsx:194-588) over the  *)
(* repository.  An administrator loads a profile, edits the form, captures *)
(* a sample and saves; name and e-mail are taken as filled in.             *)
(***************************************************************************)
\* {...x} of an embeddings field: the own properties of a map, the indices
\* "0".."k-1" of an array, nothing of an absent value.
ObjectSpread(doc) ==
  IF ~doc.exists THEN EmptyMap
  ELSE IF doc.kind = "list"
       THEN [k \in {IdxKey(i - 1) : i \in 1..Len(doc.list)} |-> doc.list[k[2] + 1]]
       ELSE doc.map

\* The stored profiles the page starts over: of u1 none, a list of two
\* samples, an active or an inactive map; of u2 none or a map.
ProfileDocs ==
  {f \in [Users -> {NoDoc, ListDoc(TRUE, << <<1>>, <<3>> >>),
                    MapDoc(TRUE, (TsKey(0) :> <<1>>)),
                    MapDoc(FALSE, (IdxKey(0) :> <<1>>)),
                    MapDoc(TRUE, (IdxKey(0) :> <<2>>))}] :
     /\ f["u1"] # MapDoc(TRUE, (IdxKey(0) :> <<2>>))
     /\ f["u2"] \in {NoDoc, MapDoc(TRUE, (IdxKey(0) :> <<2>>))}}

ProfileInit ==
  /\ faces \in ProfileDocs
  /\ stamps = [u \in Users |-> IF faces[u].exists
                                THEN [createdAt |-> 0, updatedAt |-> 0]
                                ELSE NoStamps]
  /\ presences = <<>>
  /\ now = 0
  /\ variant = "part_002"
  /\ envUrl = FALSE
  /\ enroll = EnrollIdle
  /\ profile = ProfileIdle
  /\ ServiceInit
  /\ PageIdle
  /\ backend = BackendIdle
  /\ dash = DashIdle

\* resetForm (295-303).
FP_resetForm ==
  /\ profile # ProfileIdle
  /\ profile' = ProfileIdle
  /\ UNCHANGED <<storeVars, svcVars, pageVars, backend, dash, enroll, loadError,
                 stamps>>

\* loadFace(userId) (305-329): getFace; a missing profile only sets the error.
FP_loadFace(userId) ==
  /\ profile' =
       IF ~faces[userId].exists
       THEN [profile EXCEPT !.error = TRUE]
       ELSE [profile EXCEPT !.selectedId = userId,
                            !.form = [userId |-> userId,
                                      active |-> faces[userId].active],
                            !.currentEmbeddings = faces[userId],
                            !.pendingEmbedding = NoFace,
                            !.error = FALSE]
  /\ UNCHANGED <<storeVars, svcVars, pageVars, backend, dash, enroll, loadError,
                 stamps>>

\* The 'ID do usuário' input: setForm({...prev, userId}) (498-499).
FP_setUserId(userId) ==
  /\ profile.form.userId # userId
  /\ profile' = [profile EXCEPT !.form.userId = userId]
  /\ UNCHANGED <<storeVars, svcVars, pageVars, backend, dash, enroll, loadError,
                 stamps>>

\* processBlob (331-353): the sample of the captured or uploaded image
\* becomes pendingEmbedding; no face clears it and sets the error.
FP_processBlob(face) ==
  /\ profile' = [profile EXCEPT
                   !.pendingEmbedding = face,
                   !.error = (face = NoFace),
                   !.session = IF face = NoFace THEN @ ELSE @ \cup {face}]
  /\ UNCHANGED <<storeVars, svcVars, pageVars, backend, dash, enroll, loadError,
                 stamps>>

\* mergedEmbeddings of handleSave (381-389): the stored embeddings of
\* form.userId, then currentEmbeddings, then the pending sample under the
\* clock's key.
mergedEmbeddings(existing, pr, t) ==
  MergeMaps(MergeMaps(ObjectSpread(existing), ObjectSpread(pr.currentEmbeddings)),
            IF pr.pendingEmbedding = NoFace THEN EmptyMap
            ELSE (TsKey(t) :> pr.pendingEmbedding))

\* handleSave (369-410): getFace(form.userId), the merge, upsertFace of a
\* payload without createdAt; a rejected store call only sets the error.
FP_handleSave ==
  /\ profile.form.userId # ""
  /\ \E ok \in BOOLEAN, t \in ClockReads :
       LET userId == profile.form.userId
           merged == mergedEmbeddings(faces[userId], profile, t)
       IN  /\ now' = t
           /\ IF ok
              THEN /\ faces' = [faces EXCEPT ![userId] =
                                  upsertFace(faces[userId], profile.form.active,
                                             normalizeEmbeddings(MapDoc(TRUE, merged)))]
                   /\ stamps' = [stamps EXCEPT ![userId] =
                                   upsertFaceStamps(@, -1, t)]
                   /\ profile' = [profile EXCEPT
                                    !.pendingEmbedding = NoFace,
                                    !.currentEmbeddings = MapDoc(TRUE, merged),
                                    !.error = FALSE]
              ELSE /\ profile' = [profile EXCEPT !.error = TRUE]
                   /\ UNCHANGED <<faces, stamps>>
  /\ UNCHANGED <<presences, svcVars, pageVars, backend, dash, enroll, loadError>>

ProfileNext ==
  \/ FP_resetForm
  \/ \E userId \in Users : FP_loadFace(userId)
  \/ \E userId \in Users : FP_setUserId(userId)
  \/ \E face \in {NoFace, <<5>>} : FP_processBlob(face)
  \/ FP_handleSave

SpecProfile == ProfileInit /\ [][ProfileNext]_vars

\* The samples a stored profile holds.
SamplesOf(doc) ==
  {normalizeEmbeddings(doc)[k] : k \in DOMAIN normalizeEmbeddings(doc)}

(***************************************************************************)
(* C28: FaceProfilePage.handleSave writes into a profile only samples that *)
(* the profile already held or that were captured in the current form      *)
(* session; samples loaded from another identity's profile are not         *)
(* written into it.                                                        *)
(***************************************************************************)
C28_SaveKeepsIdentities ==
  [][\A u \in Users :
       \A s \in SamplesOf(faces'[u]) :
          \/ s \in SamplesOf(faces[u])
          \/ s \in profile.session
          \/ s = profile.pendingEmbedding]_vars

\* The profile of u2 holds a sample of u1 that was never captured in the
\* form.
C28_ForeignSampleStored ==
  /\ <<1>> \in SamplesOf(faces["u2"])
  /\ <<1>> \in SamplesOf(faces["u1"])
  /\ profile.form.userId = "u2"
  /\ profile.selectedId = "u1"

(***************************************************************************)
(* C30: a profile's createdAt is set when the profile is created and no    *)
(* later write changes it; a write to the profile refreshes updatedAt.     *)
(***************************************************************************)
C30_CreatedAtFixed ==
  [][\A u \in Users :
       /\ (stamps[u].createdAt >= 0 /\ faces'[u].exists)
            => stamps'[u].createdAt = stamps[u].createdAt
       /\ (faces'[u] # faces[u] /\ faces'[u].exists)
            => stamps'[u].updatedAt = now']_vars

\* The profile u1 was stored at time 0 (it still holds the second sample of
\* its list) and its createdAt is 1.
C30_CreatedAtRewritten ==
  /\ <<3>> \in SamplesOf(faces["u1"])
  /\ stamps["u1"].createdAt = 1
  /\ stamps["u1"].updatedAt = 1

(***************************************************************************)
(* C25: normalizeEmbeddings turns a list of k vectors into the map with    *)
(* the keys "0" to "k-1" that holds each vector under its index, returns   *)
(* a map with the same keys and vectors, returns the empty map for an      *)
(* absent value, and returns its own result unchanged.  Checked on what    *)
(* addEmbedding normalizes: the embeddings it has just read.               *)
(***************************************************************************)
C25_NormalizeKeepsVectors ==
  [][\A p \in Procs :
       (pc[p] = "idle" /\ pc'[p] = "a_set") =>
         LET d == faces[snap'[p][1]]
             n == snap'[p][3]
         IN  /\ ~d.exists => n = EmptyMap
             /\ (d.exists /\ d.kind = "list") =>
                  /\ DOMAIN n = {IdxKey(i - 1) : i \in 1..Len(d.list)}
                  /\ \A i \in 1..Len(d.list) : n[IdxKey(i - 1)] = d.list[i]
             /\ (d.exists /\ d.kind = "map") =>
                  /\ DOMAIN n = DOMAIN d.map
                  /\ \A k \in DOMAIN n : n[k] = d.map[k]
             /\ normalizeEmbeddings(MapDoc(TRUE, n)) = n]_vars

\* addEmbedding has normalized a stored list of two vectors.
C25_TwoVectorListNormalized ==
  \E p \in Procs :
    /\ pc[p] = "a_set"
    /\ DOMAIN snap[p][3] = {IdxKey(0), IdxKey(1)}
    /\ snap[p][3][IdxKey(0)] = <<0>>
    /\ snap[p][3][IdxKey(1)] = <<1>>

(***************************************************************************)
(* C26: one run of the presence handleCapture appends at most one document *)
(* to presences, whether no face was found, the record was written, or an  *)
(* exception led to the fallback record: every stored record belongs to a  *)
(* capture made, and no capture has two.                                   *)
(***************************************************************************)
C26_AtMostOneRecordPerCapture ==
  /\ \A i \in DOMAIN presences : presences[i].attempt \in 1..captures
  /\ \A i, j \in DOMAIN presences :
        presences[i].attempt = presences[j].attempt => i = j

\* Two captures, each with its one record; the write of the second's record
\* was rejected and its fallback record stored.
C26_TwoCapturesTwoRecords ==
  /\ AttemptOver
  /\ Len(presences) = 2
  /\ presences[1].attempt = 1
  /\ presences[2].attempt = 2
  /\ presences[2].note = "fallback"
  /\ cap.called
  /\ cap.writes = 2

\* The running or last attempt began with a stored, deactivated profile of
\* the claimant.
ClaimantInactive ==
  /\ cap.attempt > 0
  /\ cap.before.exists
  /\ ~cap.before.active

(***************************************************************************)
(* C27: the write-through of a check-in leaves the active flag of a        *)
(* profile that exists as it is.  For a claimant whose profile is          *)
(* deactivated the sample is stored and the profile stays inactive, a      *)
(* gallery built during the attempt holds no label of the claimant, and    *)
(* no record of the attempt has recognized = true.                         *)
(***************************************************************************)
C27_WriteThroughKeepsActiveFlag ==
  [][/\ \A u \in Users :
          faces[u].exists =>
            (faces'[u].exists /\ faces'[u].active = faces[u].active)
     /\ (ClaimantInactive /\ cap'.attempt = cap.attempt) =>
          /\ (faces' # faces) =>
                \E k \in DOMAIN faces'[LoggedUser].map :
                   faces'[LoggedUser].map[k] = cap.embedding
          /\ (matcher' # matcher) =>
                \A i \in 1..Len(matcher'.labeled) :
                   matcher'.labeled[i].label # LoggedUser
          /\ \A i \in DOMAIN presences' :
                presences'[i].attempt = cap'.attempt => ~presences'[i].recognized]_vars

\* The deactivated claimant showed the very face their profile holds: the
\* sample was stored, the profile is still inactive, the match ran against
\* the others and the record says not recognised.
C27_InactiveClaimantNotRecognized ==
  /\ AttemptOver
  /\ ClaimantInactive
  /\ cap.face = <<MaxCoord>>
  /\ ~faces[LoggedUser].active
  /\ Cardinality(DOMAIN faces[LoggedUser].map) = 2
  /\ cap.called
  /\ \E i \in AttemptRecords :
        /\ presences[i].note = "not-recognized"
        /\ ~presences[i].recognized

\* The step in which handleFaceCapture is entered: a check-in is started.
CheckInStarted ==
  /\ dash.phase = "idle"
  /\ dash'.phase = "d_position"

(***************************************************************************)
(* C29: in a Dashboard session the camera is opened, and a check-in is     *)
(* started, only for a class flagged isActive and only while no record is  *)
(* open; a record is put into activeRecord only while there is none, and   *)
(* it is a record of an active class; so the service never holds more than *)
(* one open record, and holds one exactly when the page shows one.         *)
(***************************************************************************)
C29_OneOpenRecord ==
  [][/\ (~dash.showCamera /\ dash'.showCamera) =>
          /\ dash.isActive[dash'.selectedClassId]
          /\ dash.activeRecord = NoRecord
     /\ CheckInStarted =>
          /\ dash'.capturedClassId \in DashClasses
          /\ dash.isActive[dash'.capturedClassId]
          /\ dash.activeRecord = NoRecord
     /\ (dash'.activeRecord # dash.activeRecord /\ dash'.activeRecord # NoRecord) =>
          /\ dash.activeRecord = NoRecord
          /\ dash.isActive[dash'.activeRecord.classId]
     /\ dash'.openRecords \in {0, 1}
     /\ dash'.openRecords = 1 <=> dash'.activeRecord # NoRecord]_vars

\* After a check-in and its check-out, a second check-in is under way for
\* an active class, with no record open.
C29_SecondCheckInAfterCheckOut ==
  /\ dash.checkOutResult # NoRecord
  /\ dash.phase = "d_api"
  /\ dash.attempts = 2
  /\ dash.isActive[dash.capturedClassId]
  /\ dash.activeRecord = NoRecord
  /\ dash.openRecords = 0

=============================================================================
